---- MODULE Spec2Model ----
(***************************************************************************)
(* Model of the matching engine of match.py (class PerfectMatcher).        *)
(*                                                                         *)
(* Text is a sequence of characters; a character is a one-element string.  *)
(* Characters outside ASCII are written by name: "<geom>" and "<jeong>"    *)
(* are the Hangul syllables U+AC80 and U+C815, "<maen>" and "<tu>" are     *)
(* U+B9E8 and U+D22C, "<fwM>" is the full-width letter U+FF2D and          *)
(* "<nbsp>" is the no-break space U+00A0.                                  *)
(*                                                                         *)
(* Scores are fixed-point numbers: a name score is held in thousandths of  *)
(* a point (0 .. 100000) and a confidence in units of 1/100000 of a point  *)
(* (weights are held in hundredths).                                       *)
(***************************************************************************)
EXTENDS Integers, Sequences, FiniteSets, TLC

(***************************************************************************)
(* Characters                                                              *)
(***************************************************************************)
Digits == {"0", "1", "2", "5", "7", "9"}
LowerLatin == {"a", "b", "c", "k", "l", "m", "t", "x", "r", "e", "d"}
UpperLatin == {"A", "B", "L", "M", "X"}
Hangul == {"<geom>", "<jeong>", "<maen>", "<tu>"}
WhiteSpace == {" ", "<nbsp>"}

\* str.lower() on one character
LowerChar(c) ==
    CASE c = "A" -> "a"
      [] c = "B" -> "b"
      [] c = "L" -> "l"
      [] c = "M" -> "m"
      [] c = "X" -> "x"
      [] OTHER -> c

\* unicodedata.normalize("NFKC", .) on one character
NFKCChar(c) ==
    CASE c = "<fwM>" -> "M"
      [] c = "<nbsp>" -> " "
      [] OTHER -> c

\* the class [0-9a-z가-힣] of the two regular expressions
IsAlnum(c) == c \in Digits \cup LowerLatin \cup Hangul

MapSeq(s, Op(_)) == [i \in 1..Len(s) |-> Op(s[i])]

(***************************************************************************)
(* Helpers on text                                                         *)
(***************************************************************************)
RECURSIVE LStrip(_)
LStrip(s) ==
    IF s # <<>> /\ Head(s) \in WhiteSpace THEN LStrip(Tail(s)) ELSE s

RECURSIVE RStrip(_)
RStrip(s) ==
    IF s # <<>> /\ s[Len(s)] \in WhiteSpace
    THEN RStrip(SubSeq(s, 1, Len(s) - 1)) ELSE s

\* str.strip()
Strip(s) == RStrip(LStrip(s))

\* re.sub(cls + "+", rep, s): every maximal run of characters of the class
\* (given by the predicate InClass) becomes rep
RECURSIVE SubRuns(_, _, _)
SubRuns(s, InClass(_), rep) ==
    IF s = <<>> THEN <<>>
    ELSE IF InClass(Head(s))
         THEN IF Len(s) > 1 /\ InClass(s[2])
              THEN SubRuns(Tail(s), InClass, rep)
              ELSE rep \o SubRuns(Tail(s), InClass, rep)
         ELSE <<Head(s)>> \o SubRuns(Tail(s), InClass, rep)

IsSpace(c) == c \in WhiteSpace
IsNotAlnum(c) == ~IsAlnum(c)

\* str.split(): the maximal runs of non-whitespace characters, in order
RECURSIVE SplitWs(_, _)
SplitWs(s, cur) ==
    IF s = <<>> THEN (IF cur = <<>> THEN <<>> ELSE <<cur>>)
    ELSE IF Head(s) \in WhiteSpace
         THEN (IF cur = <<>> THEN <<>> ELSE <<cur>>) \o SplitWs(Tail(s), <<>>)
         ELSE SplitWs(Tail(s), Append(cur, Head(s)))

Split(s) == SplitWs(s, <<>>)

\* " ".join(tokens)
RECURSIVE Join(_)
Join(toks) ==
    IF toks = <<>> THEN <<>>
    ELSE IF Len(toks) = 1 THEN toks[1]
    ELSE toks[1] \o <<" ">> \o Join(Tail(toks))

\* the set of elements of a sequence
Range(s) == {s[i] : i \in 1..Len(s)}

(***************************************************************************)
(* Normalizer                                                              *)
(***************************************************************************)
\* a variant without the final strip()
normalize_text_ultra_NoStrip(s) ==
    LET s1 == Strip(s)
        s2 == MapSeq(s1, NFKCChar)
        s3 == MapSeq(s2, LowerChar)
        s4 == SubRuns(s3, IsSpace, <<" ">>)
        s5 == SubRuns(s4, IsNotAlnum, <<" ">>)
    IN  SubRuns(s5, IsSpace, <<" ">>)

\* normalize_text_ultra on a str
normalize_text_ultra(s) ==
    LET s1 == Strip(s)
        s2 == MapSeq(s1, NFKCChar)
        s3 == MapSeq(s2, LowerChar)
        s4 == SubRuns(s3, IsSpace, <<" ">>)
        s5 == SubRuns(s4, IsNotAlnum, <<" ">>)
        s6 == SubRuns(s5, IsSpace, <<" ">>)
    IN  Strip(s6)

(***************************************************************************)
(* Configuration tables (config.py): a dict is a sequence of entries in    *)
(* insertion order.                                                        *)
(***************************************************************************)
\* COLOR_ALIASES: token -> canonical colour
COLOR_ALIASES ==
    << [k |-> <<"<geom>", "<jeong>">>, v |-> <<"b", "l", "a", "c", "k">>] >>

\* SIZE_SYNONYMS: canonical size label -> variant tokens
SIZE_SYNONYMS ==
    << [canon |-> <<"x", "x", "l">>, variants |-> << <<"2", "x", "l">> >>] >>

\* NAME_SYNONYM_GROUPS: canonical name label -> variant substrings
NAME_SYNONYM_GROUPS ==
    << [canon |-> <<"m", "t", "m">>, variants |-> << <<"<maen>", "<tu>", "<maen>">> >>] >>

\* dict.get(t, t) on a table of [k, v] entries
RECURSIVE AliasGet(_, _)
AliasGet(table, t) ==
    IF table = <<>> THEN t
    ELSE IF table[1].k = t THEN table[1].v
    ELSE AliasGet(Tail(table), t)

\* normalize_color_ultra with an explicit alias table
NormalizeColorWith(aliases, s) ==
    LET tokens == Split(normalize_text_ultra(s))
        mapped == [i \in 1..Len(tokens) |-> AliasGet(aliases, tokens[i])]
    IN  Join(mapped)

normalize_color_ultra(s) == NormalizeColorWith(COLOR_ALIASES, s)

(***************************************************************************)
(* Synonym canonicalizer                                                   *)
(***************************************************************************)
\* a variant that takes a token containing a label or a variant as a match
RECURSIVE NormalizeSizeTokenWith_Substring(_, _)
NormalizeSizeTokenWith_Substring(groups, tok) ==
    LET t == MapSeq(tok, LowerChar)
        In(v) == \E i \in 1..(Len(t) - Len(v) + 1) :
                    SubSeq(t, i, i + Len(v) - 1) = v
    IN  IF groups = <<>> THEN t
        ELSE IF \/ In(groups[1].canon)
                \/ \E v \in Range(groups[1].variants) : In(v)
             THEN groups[1].canon
             ELSE NormalizeSizeTokenWith_Substring(Tail(groups), tok)

\* _normalize_size_token with an explicit synonym table: the first group, in
\* table order, whose canonical label or one of whose variants equals the
\* lower-cased token
RECURSIVE NormalizeSizeTokenWith(_, _)
NormalizeSizeTokenWith(groups, tok) ==
    LET t == MapSeq(tok, LowerChar)
    IN  IF groups = <<>> THEN t
        ELSE IF t = groups[1].canon \/ t \in Range(groups[1].variants)
             THEN groups[1].canon
             ELSE NormalizeSizeTokenWith(Tail(groups), tok)

_normalize_size_token(tok) == NormalizeSizeTokenWith(SIZE_SYNONYMS, tok)

\* does v occur in s at position 1, ignoring case
MatchesAt(s, v) ==
    /\ Len(v) <= Len(s)
    /\ \A i \in 1..Len(v) : LowerChar(s[i]) = LowerChar(v[i])

\* re.sub(re.escape(v), canon, s, flags=re.IGNORECASE): the non-overlapping
\* occurrences of v, leftmost first, are replaced by canon
RECURSIVE ReSub(_, _, _)
ReSub(v, canon, s) ==
    IF v = <<>>
    THEN IF s = <<>> THEN canon
         ELSE canon \o <<Head(s)>> \o ReSub(v, canon, Tail(s))
    ELSE IF s = <<>> THEN <<>>
    ELSE IF MatchesAt(s, v)
         THEN canon \o ReSub(v, canon, SubSeq(s, Len(v) + 1, Len(s)))
         ELSE <<Head(s)>> \o ReSub(v, canon, Tail(s))

RECURSIVE ApplyVariants(_, _, _)
ApplyVariants(variants, canon, s) ==
    IF variants = <<>> THEN s
    ELSE ApplyVariants(Tail(variants), canon, ReSub(variants[1], canon, s))

RECURSIVE ApplyGroups(_, _)
ApplyGroups(groups, s) ==
    IF groups = <<>> THEN s
    ELSE ApplyGroups(Tail(groups),
                     ApplyVariants(groups[1].variants, groups[1].canon, s))

\* apply_bidir_synonyms_text with an explicit group table, in table order
ApplySynonymsWith(groups, s) == IF s = <<>> THEN s ELSE ApplyGroups(groups, s)

apply_bidir_synonyms_text(s) == ApplySynonymsWith(NAME_SYNONYM_GROUPS, s)

(***************************************************************************)
(* Size tokenizer                                                          *)
(***************************************************************************)
IsParen(c) == c \in {"(", ")"}

\* str.strip() of the group, kept only when non-empty
StripNonEmpty(v) == IF Strip(v) = <<>> THEN {} ELSE {Strip(v)}

\* a variant that never looks inside the parentheses
_extract_parentheses_values_Whole(tok) == IF tok # <<>> THEN {tok} ELSE {}

\* _extract_parentheses_values: ^([^()]+)\(([^()]+)\)$ gives both groups,
\* anything else the token itself
_extract_parentheses_values(tok) ==
    LET n == Len(tok)
        opens == {i \in 1..n : tok[i] = "("}
        fits == /\ n >= 4
                /\ tok[n] = ")"
                /\ Cardinality(opens) = 1
                /\ \A i \in 1..(n - 1) : tok[i] # ")"
                /\ \A i \in opens : i > 1 /\ i < n - 1
        o == CHOOSE i \in opens : TRUE
    IN  IF fits
        THEN StripNonEmpty(SubSeq(tok, 1, o - 1))
               \cup StripNonEmpty(SubSeq(tok, o + 1, n - 1))
        ELSE IF tok # <<>> THEN {tok} ELSE {}

\* s.replace("~", " ~ ")
RECURSIVE ReplaceTilde(_)
ReplaceTilde(s) ==
    IF s = <<>> THEN <<>>
    ELSE IF Head(s) = "~" THEN <<" ", "~", " ">> \o ReplaceTilde(Tail(s))
    ELSE <<Head(s)>> \o ReplaceTilde(Tail(s))

IsSeparator(c) == c \in {",", "/", "|"}

\* re.sub(r"[^0-9a-z가-힣]+", "", value)
CleanValue(v) == SelectSeq(v, IsAlnum)

\* extract_size_parts_ultra with an explicit synonym table
ExtractSizePartsWith(groups, s) ==
    LET s1 == MapSeq(s, NFKCChar)
        s2 == ReplaceTilde(s1)
        s3 == SubRuns(s2, IsSeparator, <<" ">>)
        s4 == MapSeq(Strip(SubRuns(s3, IsSpace, <<" ">>)), LowerChar)
        toks == Split(s4)
        values == UNION {_extract_parentheses_values(Strip(toks[i])) :
                            i \in 1..Len(toks)}
    IN  {NormalizeSizeTokenWith(groups, CleanValue(v)) :
             v \in {w \in values : CleanValue(w) # <<>>}}

extract_size_parts_ultra(s) == ExtractSizePartsWith(SIZE_SYNONYMS, s)

(***************************************************************************)
(* Fuzzy name score (rapidfuzz fuzz.partial_ratio), in thousandths         *)
(***************************************************************************)
Max(a, b) == IF a >= b THEN a ELSE b
Min(a, b) == IF a <= b THEN a ELSE b

SetMax(S) == CHOOSE x \in S : \A y \in S : y <= x

\* length of a longest common subsequence
RECURSIVE LCS(_, _)
LCS(a, b) ==
    IF a = <<>> \/ b = <<>> THEN 0
    ELSE IF Head(a) = Head(b) THEN 1 + LCS(Tail(a), Tail(b))
    ELSE Max(LCS(Tail(a), b), LCS(a, Tail(b)))

\* fuzz.ratio: the normalized Indel similarity, 100 * 2 * LCS / (|a| + |b|)
Ratio(a, b) ==
    IF Len(a) + Len(b) = 0 THEN 100000
    ELSE (200000 * LCS(a, b)) \div (Len(a) + Len(b))

\* the windows of the longer text the shorter one is aligned against: its
\* prefixes shorter than the needle, its substrings of the needle's length
\* and its suffixes shorter than the needle
Windows(long, n) ==
    {SubSeq(long, 1, i) : i \in 1..(n - 1)}
      \cup {SubSeq(long, i, i + n - 1) : i \in 1..(Len(long) - n + 1)}
      \cup {SubSeq(long, i, Len(long)) : i \in (Len(long) - n + 2)..Len(long)}

PartialRatioImpl(short, long) ==
    SetMax({0} \cup {Ratio(short, w) : w \in Windows(long, Len(short))})

partial_ratio(a, b) ==
    IF a = <<>> /\ b = <<>> THEN 100000
    ELSE IF a = <<>> \/ b = <<>> THEN 0
    ELSE IF Len(a) < Len(b) THEN PartialRatioImpl(a, b)
    ELSE IF Len(b) < Len(a) THEN PartialRatioImpl(b, a)
    ELSE Max(PartialRatioImpl(a, b), PartialRatioImpl(b, a))

\* fast_fuzzy_match
fast_fuzzy_match(a, b) ==
    IF a = <<>> \/ b = <<>> THEN 0 ELSE partial_ratio(a, b)

(***************************************************************************)
(* Matching settings (PerfectMatcher.__init__): the cutoff in points, the  *)
(* weights in hundredths                                                   *)
(***************************************************************************)
name_score_cutoff == 70
weight_brand == 25
weight_name == 35
weight_color == 25
weight_size == 15

\* the dict MATCHING of config.py, as the matcher finds it when it is built:
\* a function from keys to values; "weights" maps to a function of the keys
\* brand, name, color, size
VARIABLES MATCHING

\* the module config as app.py holds it (import config): its attributes by
\* name.  match.py binds its own names to the values of these attributes
\* when it is imported (from config import ...); the name MATCHING above and
\* the tables NAME_SYNONYM_GROUPS, SIZE_SYNONYMS, COLOR_ALIASES, EXCEL_COLORS
\* are those names of match.py
VARIABLES config

\* the values written in the file config.py
VARIABLES config_py

\* EXCEL_COLORS: the fills by name
EXCEL_COLORS == [cyan |-> "cyan", yellow |-> "yellow", red |-> "red"]

\* the attributes of config once match.py has been imported with the given
\* MATCHING: each name of match.py and the attribute it was copied from hold
\* the same value
ImportedConfig(matching) ==
    [NAME_SYNONYM_GROUPS |-> NAME_SYNONYM_GROUPS,
     SIZE_SYNONYMS |-> SIZE_SYNONYMS,
     COLOR_ALIASES |-> COLOR_ALIASES,
     MATCHING |-> matching,
     EXCEL_COLORS |-> EXCEL_COLORS]

\* a MATCHING that holds the values __init__ falls back on (lines 71-72)
DEFAULT_MATCHING ==
    [name_score_cutoff |-> name_score_cutoff,
     weights |-> [brand |-> weight_brand, name |-> weight_name,
                  color |-> weight_color, size |-> weight_size]]

\* dict.get(key, default)
Get(d, key, default) == IF key \in DOMAIN d THEN d[key] ELSE default

\* w = MATCHING.get("weights", {...}) of __init__
WeightsOf(cfg) ==
    Get(cfg, "weights", [brand |-> weight_brand, name |-> weight_name,
                         color |-> weight_color, size |-> weight_size])

\* PerfectMatcher.__init__: the attributes of the matcher built on cfg
Matcher(cfg) ==
    [name_score_cutoff |-> Get(cfg, "name_score_cutoff", name_score_cutoff),
     weight_brand |-> Get(WeightsOf(cfg), "brand", weight_brand),
     weight_name |-> Get(WeightsOf(cfg), "name", weight_name),
     weight_color |-> Get(WeightsOf(cfg), "color", weight_color),
     weight_size |-> Get(WeightsOf(cfg), "size", weight_size)]

\* self, in the methods of the matcher
Self == Matcher(MATCHING)

(***************************************************************************)
(* Rows.  A row of a dataset holds the raw columns brand, name, color,     *)
(* size and the quantity cell qty.  A row handed to the scorer also holds  *)
(* the normalized columns when _precompute_normalized_columns has added    *)
(* them (pre = TRUE).                                                      *)
(***************************************************************************)
\* a row of a dataset the normalized columns were not added to
PlainRow(row) ==
    [brand |-> row.brand, name |-> row.name, color |-> row.color,
     size |-> row.size, pre |-> FALSE,
     brand_n |-> <<>>, name_n |-> <<>>, color_n |-> <<>>, sizes_s |-> {}]

\* _precompute_normalized_columns, for one row
_precompute_normalized_columns(row) ==
    [brand |-> row.brand, name |-> row.name, color |-> row.color,
     size |-> row.size, pre |-> TRUE,
     brand_n |-> normalize_text_ultra(row.brand),
     name_n |-> apply_bidir_synonyms_text(normalize_text_ultra(row.name)),
     color_n |-> normalize_color_ultra(row.color),
     sizes_s |-> extract_size_parts_ultra(row.size)]

\* row.get("x_brand_n") or normalize_text_ultra(row.get("브랜드", ""))
BrandOf(row) ==
    IF row.pre /\ row.brand_n # <<>> THEN row.brand_n
    ELSE normalize_text_ultra(row.brand)

NameOf(row) ==
    IF row.pre /\ row.name_n # <<>> THEN row.name_n
    ELSE normalize_text_ultra(row.name)

ColorOf(row) ==
    IF row.pre /\ row.color_n # <<>> THEN row.color_n
    ELSE normalize_color_ultra(row.color)

\* rs = row.get("x_sizes_s"); if rs is None: rs = extract_size_parts_ultra(..)
SizesOf(row) ==
    IF row.pre THEN row.sizes_s ELSE extract_size_parts_ultra(row.size)

(***************************************************************************)
(* Confidence scorer                                                       *)
(***************************************************************************)
\* the pairs of rows, by their raw columns, on which a statement inside the
\* try block of the scorer raises an exception
VARIABLES faulty

\* a variant of the rejection that has compared the names before the gates
Rejected_Named(named) ==
    [ok |-> FALSE, conf |-> 0, named |-> TRUE, name_score |-> 0]
\* the result of a failed gate
Rejected(named) == [ok |-> FALSE, conf |-> 0, named |-> named, name_score |-> 0]

\* a variant of the size gate that lets every pair through
SizeGate_Open(rs, ms) == TRUE
\* a variant of the size gate that asks for the same token sets
SizeGate_Equal(rs, ms) == rs # {} /\ ms # {} /\ rs = ms
\* the size gate, the brand gate and the colour gate of the scorer
SizeGate(rs, ms) == rs # {} /\ ms # {} /\ rs \cap ms # {}
BrandGate(rb, mb) == rb = mb
ColorGate(rc, mc) == rc = mc
\* a variant of the name gate that lets every score through
NameGate_Open(score) == TRUE
NameGate(score) == score >= 1000 * Self.name_score_cutoff

\* a variant that divides the weighted sum by the total weight
TotalConf_Normalized(name_score) ==
    LET total == Self.weight_brand + Self.weight_name + Self.weight_color
                   + Self.weight_size
        sum == 100000 * Self.weight_brand + name_score * Self.weight_name
                 + 100000 * Self.weight_color + 100000 * Self.weight_size
    IN  IF total <= 0 THEN 0
        ELSE 100 * (sum \div total) + (100 * (sum % total)) \div total

\* a variant that adds the name score without its weight
TotalConf_UnweightedName(name_score) ==
    100000 * Self.weight_brand + name_score * 100
      + 100000 * Self.weight_color + 100000 * Self.weight_size

\* lines 218-227: the weighted sum of the four component scores
TotalConf(name_score) ==
    100000 * Self.weight_brand + name_score * Self.weight_name
      + 100000 * Self.weight_color + 100000 * Self.weight_size

\* lines 214-235: the name gate and the result of an accepted pair
NameDecision(name_score) ==
    IF ~NameGate(name_score)
    THEN [ok |-> FALSE, conf |-> 0, named |-> TRUE, name_score |-> name_score]
    ELSE [ok |-> TRUE, conf |-> TotalConf(name_score), named |-> TRUE,
          name_score |-> name_score]

\* the raw columns of a row
RawOf(row) ==
    [brand |-> row.brand, name |-> row.name, color |-> row.color,
     size |-> row.size]

\* does a statement of the try block (lines 190-235) raise on this pair
Raises(receipt_row, matched_row) ==
    <<RawOf(receipt_row), RawOf(matched_row)>> \in faulty

\* a variant of the handler that reports the pair as accepted
Caught_Accepted ==
    [ok |-> TRUE, conf |-> 0, named |-> FALSE, name_score |-> 0]
\* lines 237-239: except Exception: log, return False, 0.0, {}
Caught == [ok |-> FALSE, conf |-> 0, named |-> FALSE, name_score |-> 0]

\* calculate_match_confidence_perfect: ok and conf are what it returns,
\* named tells whether it called fast_fuzzy_match, name_score what that gave
calculate_match_confidence_perfect(receipt_row, matched_row) ==
    IF Raises(receipt_row, matched_row)
    THEN Caught
    ELSE IF ~SizeGate(SizesOf(receipt_row), SizesOf(matched_row))
    THEN Rejected(FALSE)
    ELSE IF ~BrandGate(BrandOf(receipt_row), BrandOf(matched_row))
    THEN Rejected(FALSE)
    ELSE IF ~ColorGate(ColorOf(receipt_row), ColorOf(matched_row))
    THEN Rejected(FALSE)
    ELSE NameDecision(fast_fuzzy_match(NameOf(receipt_row), NameOf(matched_row)))

(***************************************************************************)
(* Blocking index                                                          *)
(***************************************************************************)
\* the row labels 0 .. n-1 of a dataset, in iteration order
IndexSeq(df) == [i \in 1..Cardinality(DOMAIN df) |-> i - 1]

\* the labels of idxs, in order, that satisfy Test
Select(idxs, Test(_)) == SelectSeq(idxs, Test)

\* a variant that enters a catalog line in bcs only under a size token that
\* is its only one
_build_candidate_index_SingleToken(mdf) ==
    LET all == IndexSeq(mdf)
        keysB == {<<mdf[m].brand_n>> : m \in DOMAIN mdf}
        keysBC == {<<mdf[m].brand_n, mdf[m].color_n>> : m \in DOMAIN mdf}
        keysBCS == UNION {{<<mdf[m].brand_n, mdf[m].color_n, s>> :
                              s \in mdf[m].sizes_s} : m \in DOMAIN mdf}
    IN  [b |-> [key \in keysB |->
                  LET T(m) == mdf[m].brand_n = key[1] IN Select(all, T)],
         bc |-> [key \in keysBC |->
                  LET T(m) == /\ mdf[m].brand_n = key[1]
                              /\ mdf[m].color_n = key[2]
                  IN  Select(all, T)],
         bcs |-> [key \in keysBCS |->
                  LET T(m) == /\ mdf[m].brand_n = key[1]
                              /\ mdf[m].color_n = key[2]
                              /\ {key[3]} = mdf[m].sizes_s
                  IN  Select(all, T)]]
\* _build_candidate_index: three mappings from a key to the list of the
\* catalog labels under it, in catalog order; a catalog line is entered in
\* bcs once for each of its size tokens
_build_candidate_index(mdf) ==
    LET all == IndexSeq(mdf)
        keysB == {<<mdf[m].brand_n>> : m \in DOMAIN mdf}
        keysBC == {<<mdf[m].brand_n, mdf[m].color_n>> : m \in DOMAIN mdf}
        keysBCS == UNION {{<<mdf[m].brand_n, mdf[m].color_n, s>> :
                              s \in mdf[m].sizes_s} : m \in DOMAIN mdf}
    IN  [b |-> [key \in keysB |->
                  LET T(m) == mdf[m].brand_n = key[1] IN Select(all, T)],
         bc |-> [key \in keysBC |->
                  LET T(m) == /\ mdf[m].brand_n = key[1]
                              /\ mdf[m].color_n = key[2]
                  IN  Select(all, T)],
         bcs |-> [key \in keysBCS |->
                  LET T(m) == /\ mdf[m].brand_n = key[1]
                              /\ mdf[m].color_n = key[2]
                              /\ key[3] \in mdf[m].sizes_s
                  IN  Select(all, T)]]

\* dict.get(key, [])
IndexGet(idx, key) == IF key \in DOMAIN idx THEN idx[key] ELSE <<>>

\* the orders in which a set can be iterated
Orderings(S) ==
    {f \in [1..Cardinality(S) -> S] :
        \A i, j \in 1..Cardinality(S) : i # j => f[i] # f[j]}

RECURSIVE Tier1(_, _, _, _)
Tier1(idx, b, c, order) ==
    IF order = <<>> THEN <<>>
    ELSE IndexGet(idx.bcs, <<b, c, Head(order)>>) \o Tier1(idx, b, c, Tail(order))

\* lines 299-310: the tier the candidates are taken from and the candidates,
\* before the stock filter; order is the order in which sizes is iterated
TierLookup(idx, b, c, order) ==
    LET t1 == Tier1(idx, b, c, order)
        t2 == IndexGet(idx.bc, <<b, c>>)
        t3 == IndexGet(idx.b, <<b>>)
    IN  IF t1 # <<>> THEN [tier |-> 1, ids |-> t1]
        ELSE IF t2 # <<>> THEN [tier |-> 2, ids |-> t2]
        ELSE IF t3 # <<>> THEN [tier |-> 3, ids |-> t3]
        ELSE [tier |-> 0, ids |-> <<>>]

\* line 313: only the candidates with stock
StockFilter(ids, mqty) ==
    LET T(m) == mqty[m] > 0 IN Select(ids, T)

(***************************************************************************)
(* Sorting                                                                 *)
(***************************************************************************)
\* list.sort(key, reverse=True) and sorted(.., reverse=True): descending by
\* key, stable (elements with equal keys keep their order)
RECURSIVE InsertDesc(_, _, _)
InsertDesc(sorted, i, keys) ==
    IF sorted = <<>> THEN <<i>>
    ELSE IF keys[Head(sorted)] >= keys[i]
         THEN <<Head(sorted)>> \o InsertDesc(Tail(sorted), i, keys)
         ELSE <<i>> \o sorted

\* the positions 1 .. Len(keys), sorted by descending key, stable
RECURSIVE SortedPositions(_, _, _)
SortedPositions(sorted, i, keys) ==
    IF i > Len(keys) THEN sorted
    ELSE SortedPositions(InsertDesc(sorted, i, keys), i + 1, keys)

SortDesc(s, Key(_)) ==
    LET keys == [i \in 1..Len(s) |-> Key(s[i])]
        pos == SortedPositions(<<>>, 1, keys)
    IN  [i \in 1..Len(s) |-> s[pos[i]]]

ConfKey(x) == x.conf
ScoreKey(x) == x.score

\* process.extract(r_name, cand_names, scorer=fuzz.partial_ratio,
\* score_cutoff=cutoff, limit=None): the choices scoring at least the cutoff,
\* best first, equal scores in the order of the choices
process_extract(r_name, cand_names) ==
    LET all == [i \in 1..Len(cand_names) |->
                  [local_idx |-> i, score |-> partial_ratio(r_name, cand_names[i])]]
        T(x) == x.score >= 1000 * Self.name_score_cutoff
    IN  SortDesc(SelectSeq(all, T), ScoreKey)

(***************************************************************************)
(* Quantity cells.  A cell of the quantity column is an integer, or NaN    *)
(* (an empty cell), or text; int() raises ValueError on the last two.      *)
(***************************************************************************)
IntCell(n) == [kind |-> "int", val |-> n]
NaNCell == [kind |-> "nan", val |-> 0]
TextCell == [kind |-> "text", val |-> 0]

\* can every int(df.at[idx, "수량"]) of the comprehension be evaluated
QtyParses(df) ==
    df.has_qty => \A i \in DOMAIN df.rows : df.rows[i].qty.kind = "int"

\* {idx: int(df.at[idx, "수량"]) if "수량" in df.columns else 1 for idx in df.index}
QtyMap(df) ==
    [i \in DOMAIN df.rows |-> IF df.has_qty THEN df.rows[i].qty.val ELSE 1]

(***************************************************************************)
(* State                                                                   *)
(***************************************************************************)
VARIABLES
    receipt_df,       \* the order dataset: [has_qty, rows]
    matched_df,       \* the catalog dataset: [has_qty, rows]
    run,              \* the number of the run under way
    pc,               \* "start", "line", "alloc" or "done"
    r_df,             \* the rows of the order dataset, as the run sees them
    m_df,             \* the rows of the catalog dataset, as the run sees them
    index,            \* the blocking index [b, bc, bcs] of the run
    receipt_qty,      \* remaining quantity of each order line
    matched_qty,      \* remaining quantity of each catalog line
    matched_results,  \* the MatchResult records emitted so far by the run
    r_pos,            \* the order line the outer loop is at
    remain,           \* remain of the order line under way
    results,          \* the accepted candidates of that line, sorted
    k,                \* the position of the inner loop in results
    cand,             \* the last candidate retrieval of the blocked matcher:
                      \* the order line r, the tier, the candidates before
                      \* (raw) and after (ids) the stock filter, and the
                      \* remaining quantities (stock) it was made with
    compared,         \* the name comparisons the run has made: [r, m, by]
    finished          \* what the completed runs returned

\* a call of one of the other functions of the program, outside a matching
\* run
VARIABLES
    fn,               \* the function called, "none" when there is no such call
    arg,              \* its argument
    ret               \* how far the call is and what it has returned

vars == <<receipt_df, matched_df, faulty, MATCHING, config, config_py, fn, arg, ret, run, pc, r_df, m_df, index, receipt_qty,
          matched_qty, matched_results, r_pos, remain, results, k, cand,
          compared, finished>>

\* the runs a behaviour makes, all on the same two datasets: the blocked
\* matcher twice and the sequential matcher once
RunKinds == <<"blocked", "blocked", "sequential">>

EmptyIndex == [b |-> <<>>, bc |-> <<>>, bcs |-> <<>>]
NoCand == [valid |-> FALSE, r |-> 0, tier |-> 0, raw |-> <<>>, ids |-> <<>>,
           stock |-> <<>>]

NumReceipt == Cardinality(DOMAIN receipt_df.rows)
NumMatched == Cardinality(DOMAIN matched_df.rows)

(***************************************************************************)
(* Input datasets                                                          *)
(***************************************************************************)
MaxQty == 2

Mtm == <<"m", "t", "m">>
Black == <<"b", "l", "a", "c", "k">>

OrderShapes ==
    { [brand |-> <<"A">>, name |-> Mtm, color |-> <<"<geom>", "<jeong>">>,
       size |-> <<"7", "(", "M", ")">>],
      [brand |-> <<"A">>, name |-> <<"<maen>", "<tu>", "<maen>">>,
       color |-> Black, size |-> <<"M">>],
      [brand |-> <<"A">>, name |-> Mtm, color |-> <<"r", "e", "d">>,
       size |-> <<"L">>] }

CatalogShapes ==
    { [brand |-> <<"a">>, name |-> Mtm, color |-> Black, size |-> <<"M">>],
      [brand |-> <<"a">>, name |-> Mtm, color |-> Black, size |-> <<"7">>],
      [brand |-> <<"a">>, name |-> <<"m", "t", "x", "m">>, color |-> Black,
       size |-> <<"M", "(", "7", ")">>],
      [brand |-> <<"b">>, name |-> Mtm, color |-> Black, size |-> <<"M">>] }

WithQty(shape, cell) ==
    [brand |-> shape.brand, name |-> shape.name, color |-> shape.color,
     size |-> shape.size, qty |-> cell]

RowsOf(Shapes, Cells) == {WithQty(s, c) : s \in Shapes, c \in Cells}

IntCells(lo, hi) == {IntCell(q) : q \in lo..hi}

\* no function is called outside the matching runs
NoCall == fn = "none" /\ arg = <<>> /\ ret = <<>>

\* the state before the first run, for given sets of datasets, a given set
\* of sets of pairs the scorer raises on and a given set of settings
InitState(Receipts, Catalogs, Faults, Settings) ==
    /\ receipt_df \in Receipts
    /\ matched_df \in Catalogs
    /\ faulty \in Faults
    /\ MATCHING \in Settings
    /\ config = ImportedConfig(MATCHING)
    /\ config_py = config
    /\ run = 1
    /\ pc = "start"
    /\ r_df = <<>>
    /\ m_df = <<>>
    /\ index = EmptyIndex
    /\ receipt_qty = <<>>
    /\ matched_qty = <<>>
    /\ matched_results = <<>>
    /\ r_pos = 0
    /\ remain = 0
    /\ results = <<>>
    /\ k = 0
    /\ cand = NoCand
    /\ compared = {}
    /\ finished = <<>>

\* the state before the first run on datasets the scorer raises on no pair
\* of, with the default settings
InitWith(Receipts, Catalogs) ==
    /\ InitState(Receipts, Catalogs, {{}}, {DEFAULT_MATCHING})
    /\ NoCall

Datasets(Idx, Rows, HasQty) ==
    {[has_qty |-> h, rows |-> f] : h \in HasQty, f \in [Idx -> Rows]}

\* two order lines of quantity 0 .. MaxQty on two catalog lines of stock
\* 1 .. MaxQty
Init ==
    InitWith(Datasets(0..1, RowsOf(OrderShapes, IntCells(0, MaxQty)), {TRUE}),
             Datasets(0..1, RowsOf(CatalogShapes, IntCells(1, MaxQty)), {TRUE}))

(***************************************************************************)
(* The per-line computations of the two matchers                           *)
(***************************************************************************)
\* a variant that filters each tier by stock before it looks whether the
\* tier is empty
BlockedCandidates_FilterFirst(idx, r_row, order, mqty) ==
    LET t1 == StockFilter(Tier1(idx, r_row.brand_n, r_row.color_n, order), mqty)
        t2 == StockFilter(IndexGet(idx.bc, <<r_row.brand_n, r_row.color_n>>),
                          mqty)
        t3 == StockFilter(IndexGet(idx.b, <<r_row.brand_n>>), mqty)
    IN  IF t1 # <<>> THEN [tier |-> 1, raw |-> t1, ids |-> t1]
        ELSE IF t2 # <<>> THEN [tier |-> 2, raw |-> t2, ids |-> t2]
        ELSE IF t3 # <<>> THEN [tier |-> 3, raw |-> t3, ids |-> t3]
        ELSE [tier |-> 0, raw |-> <<>>, ids |-> <<>>]

\* lines 298-313: the candidates of an order line
BlockedCandidates(idx, r_row, order, mqty) ==
    LET look == TierLookup(idx, r_row.brand_n, r_row.color_n, order)
    IN  [tier |-> look.tier, raw |-> look.ids,
         ids |-> StockFilter(look.ids, mqty)]

\* the retrieval as the state records it
Retrieval(r_idx, c, mqty) ==
    [valid |-> TRUE, r |-> r_idx, stock |-> mqty] @@ c

\* lines 321-330: the vectorized name comparison of the candidates
BlockedScored(r_row, mdf, candidate_ids) ==
    process_extract(r_row.name_n,
                    [i \in 1..Len(candidate_ids) |-> mdf[candidate_ids[i]].name_n])

\* one (m_idx, conf, details) of a results list, with what the scorer did
Scored(m, r_row, m_row) ==
    [m_idx |-> m] @@ calculate_match_confidence_perfect(r_row, m_row)

IsOk(x) == x.ok

\* lines 339-346: the scorer on every candidate process.extract kept
BlockedEvaluated(r_row, mdf, candidate_ids, scored) ==
    [i \in 1..Len(scored) |->
        Scored(candidate_ids[scored[i].local_idx], r_row,
               mdf[candidate_ids[scored[i].local_idx]])]

\* lines 345-349: the accepted candidates, sorted by descending confidence
BlockedResults(evaluated) == SortDesc(SelectSeq(evaluated, IsOk), ConfKey)

\* lines 391-392: the scorer on every catalog line, in catalog order
SeqEvaluated(r_row, mdf) ==
    [i \in 1..Cardinality(DOMAIN mdf) |-> Scored(i - 1, r_row, mdf[i - 1])]

\* a variant that leaves the accepted catalog lines in catalog order
SeqResults_Unsorted(evaluated, mqty) ==
    LET T(x) == x.ok /\ mqty[x.m_idx] > 0
    IN  SelectSeq(evaluated, T)
\* lines 393-396: the accepted catalog lines with stock, sorted
SeqResults(evaluated, mqty) ==
    LET T(x) == x.ok /\ mqty[x.m_idx] > 0
    IN  SortDesc(SelectSeq(evaluated, T), ConfKey)

\* the name comparisons a list of scorer calls has made
ScorerCompared(r, evaluated) ==
    {[r |-> r, m |-> evaluated[i].m_idx, by |-> "scorer"] :
        i \in {j \in 1..Len(evaluated) : evaluated[j].named}}

\* a variant that takes the whole remainder of the order line, whatever the
\* stock of the catalog line
MatchQty_IgnoreStock(rem, stock) == rem

\* match_qty = min(remain, matched_qty[m_idx])
MatchQty(rem, stock) == Min(rem, stock)

\* a variant that emits one record for a match, whatever its quantity
Emit_Single(out, r, x, n) ==
    Append(out, [receipt_idx |-> r, matched_idx |-> x.m_idx,
                 confidence_score |-> x.conf, name_score |-> x.name_score])

\* for _ in range(int(match_qty)): matched_results.append(MatchResult(..))
Emit(out, r, x, n) ==
    out \o [i \in 1..n |->
              [receipt_idx |-> r, matched_idx |-> x.m_idx,
               confidence_score |-> x.conf, name_score |-> x.name_score]]

(***************************************************************************)
(* Actions                                                                 *)
(***************************************************************************)
\* a run returns, or is left by an exception: the next run starts
EndRun(status, out, rq, mq) ==
    /\ finished' = Append(finished,
                          [kind |-> RunKinds[run], status |-> status,
                           results |-> out, receipt_qty |-> rq,
                           matched_qty |-> mq])
    /\ IF run < Len(RunKinds)
       THEN run' = run + 1 /\ pc' = "start"
       ELSE run' = run /\ pc' = "done"

\* the loop state before the first order line
EnterLoop ==
    /\ receipt_qty' = QtyMap(receipt_df)
    /\ matched_qty' = QtyMap(matched_df)
    /\ matched_results' = <<>>
    /\ r_pos' = 0
    /\ remain' = 0
    /\ results' = <<>>
    /\ k' = 0
    /\ cand' = NoCand
    /\ compared' = {}
    /\ pc' = "line"
    /\ UNCHANGED <<run, finished>>

\* int() raised on a quantity cell: the exception leaves the matcher
Raise ==
    /\ EndRun("failed", <<>>, <<>>, <<>>)
    /\ UNCHANGED <<r_df, m_df, index, receipt_qty, matched_qty,
                   matched_results, r_pos, remain, results, k, cand, compared>>

\* _precompute_normalized_columns on a dataset
Precomputed(df) ==
    [i \in DOMAIN df.rows |-> _precompute_normalized_columns(df.rows[i])]

StartBlockedWith(mdf) ==
    /\ r_df' = Precomputed(receipt_df)
    /\ m_df' = mdf
    /\ index' = _build_candidate_index(mdf)
    /\ EnterLoop

\* fuzzy_match_orders_blocked, lines 272-288
StartBlocked ==
    /\ pc = "start"
    /\ RunKinds[run] = "blocked"
    /\ IF QtyParses(receipt_df) /\ QtyParses(matched_df)
       THEN StartBlockedWith(Precomputed(matched_df))
       ELSE Raise
    /\ UNCHANGED <<receipt_df, matched_df, faulty, MATCHING, config, config_py, fn, arg, ret>>

\* fuzzy_match_orders_perfect_sequential, lines 376-383
StartSequential ==
    /\ pc = "start"
    /\ RunKinds[run] = "sequential"
    /\ IF QtyParses(receipt_df) /\ QtyParses(matched_df)
       THEN /\ r_df' = [i \in DOMAIN receipt_df.rows |->
                          PlainRow(receipt_df.rows[i])]
            /\ m_df' = [i \in DOMAIN matched_df.rows |->
                          PlainRow(matched_df.rows[i])]
            /\ index' = EmptyIndex
            /\ EnterLoop
       ELSE Raise
    /\ UNCHANGED <<receipt_df, matched_df, faulty, MATCHING, config, config_py, fn, arg, ret>>

\* a variant of the loop that visits the order lines last to first
LineAt_Reverse(pos) == NumReceipt - 1 - pos

\* for r_idx, r_row in receipt_df.iterrows(): the label of the order line
\* the loop visits at position pos
LineAt(pos) == pos

\* pbar.update(1); continue: on to the next order line
NextLine ==
    /\ r_pos' = r_pos + 1
    /\ pc' = "line"

\* the inner loop is entered at the first entry of the sorted list
EnterAlloc(rem, res) ==
    /\ remain' = rem
    /\ results' = res
    /\ IF res = <<>>
       THEN k' = 0 /\ NextLine
       ELSE k' = 1 /\ pc' = "alloc" /\ r_pos' = r_pos

\* lines 321-346: the scorer on what process.extract kept of the candidates
BlockedEvaluatedOf(r_row, mdf, ids) ==
    BlockedEvaluated(r_row, mdf, ids, BlockedScored(r_row, mdf, ids))

\* the name comparisons process.extract makes
ExtractCompared(r, ids) ==
    {[r |-> r, m |-> ids[i], by |-> "extract"] : i \in 1..Len(ids)}

BlockedLineEnd(r_idx, rem, c, evaluated) ==
    /\ cand' = Retrieval(r_idx, c, matched_qty)
    /\ compared' = compared \cup ExtractCompared(r_idx, c.ids)
                            \cup ScorerCompared(r_idx, evaluated)
    /\ EnterAlloc(rem, BlockedResults(evaluated))

BlockedLineCand(r_idx, r_row, rem, c) ==
    BlockedLineEnd(r_idx, rem, c, BlockedEvaluatedOf(r_row, m_df, c.ids))

\* fuzzy_match_orders_blocked, lines 290-349: one order line up to its
\* sorted list of accepted candidates; the order in which the set sizes is
\* iterated is any of its orderings
BlockedLine ==
    /\ pc = "line"
    /\ RunKinds[run] = "blocked"
    /\ r_pos < NumReceipt
    /\ IF receipt_qty[LineAt(r_pos)] <= 0
       THEN /\ remain' = receipt_qty[LineAt(r_pos)]
            /\ NextLine
            /\ UNCHANGED <<results, k, cand, compared>>
       ELSE \E order \in Orderings(r_df[LineAt(r_pos)].sizes_s) :
              BlockedLineCand(LineAt(r_pos), r_df[LineAt(r_pos)],
                              receipt_qty[LineAt(r_pos)],
                              BlockedCandidates(index, r_df[LineAt(r_pos)],
                                                order, matched_qty))
    /\ UNCHANGED <<receipt_df, matched_df, faulty, MATCHING, config, config_py, fn, arg, ret, run, r_df, m_df, index, receipt_qty,
                   matched_qty, matched_results, finished>>

SeqLineEnd(r_idx, rem, evaluated) ==
    /\ compared' = compared \cup ScorerCompared(r_idx, evaluated)
    /\ EnterAlloc(rem, SeqResults(evaluated, matched_qty))

\* fuzzy_match_orders_perfect_sequential, lines 384-396
SeqLine ==
    /\ pc = "line"
    /\ RunKinds[run] = "sequential"
    /\ r_pos < NumReceipt
    /\ IF receipt_qty[LineAt(r_pos)] <= 0
       THEN /\ remain' = receipt_qty[LineAt(r_pos)]
            /\ NextLine
            /\ UNCHANGED <<results, k, compared>>
       ELSE SeqLineEnd(LineAt(r_pos), receipt_qty[LineAt(r_pos)],
                       SeqEvaluated(r_df[LineAt(r_pos)], m_df))
    /\ UNCHANGED <<receipt_df, matched_df, faulty, MATCHING, config, config_py, fn, arg, ret, run, r_df, m_df, index, receipt_qty,
                   matched_qty, matched_results, cand, finished>>

\* a variant that leaves the counter of the catalog line as it is
Allocate_KeepStock(r_idx, x, match_qty) ==
    /\ matched_results' = Emit(matched_results, r_idx, x, match_qty)
    /\ receipt_qty' =
         [receipt_qty EXCEPT ![r_idx] = receipt_qty[r_idx] - match_qty]
    /\ matched_qty' = matched_qty
    /\ remain' = remain - match_qty
\* lines 357-365: match_qty units of the pair are emitted and taken off both
\* counters
Allocate(r_idx, x, match_qty) ==
    /\ matched_results' = Emit(matched_results, r_idx, x, match_qty)
    /\ receipt_qty' =
         [receipt_qty EXCEPT ![r_idx] = receipt_qty[r_idx] - match_qty]
    /\ matched_qty' =
         [matched_qty EXCEPT ![x.m_idx] = matched_qty[x.m_idx] - match_qty]
    /\ remain' = remain - match_qty

\* a variant of the inner loop that stops after its first entry
LoopOn_Once(rem) == k' = k /\ NextLine
\* the loop goes on to the next entry unless the list is exhausted or
\* remain <= 0 breaks it
LoopOn(rem) ==
    IF k + 1 > Len(results) \/ rem <= 0
    THEN k' = k /\ NextLine
    ELSE k' = k + 1 /\ pc' = "alloc" /\ r_pos' = r_pos

\* one pass of "for m_idx, conf, details in results" (lines 351-365 and
\* 398-412), for the entry at position k
AllocateStep ==
    /\ IF matched_qty[results[k].m_idx] <= 0
       THEN /\ UNCHANGED <<matched_results, receipt_qty, matched_qty, remain>>
            /\ LoopOn(remain)
       ELSE /\ Allocate(LineAt(r_pos), results[k],
                        MatchQty(remain, matched_qty[results[k].m_idx]))
            /\ LoopOn(remain - MatchQty(remain, matched_qty[results[k].m_idx]))
    /\ UNCHANGED <<receipt_df, matched_df, faulty, MATCHING, config, config_py, fn, arg, ret, run, r_df, m_df, index, results,
                   cand, compared, finished>>

\* fuzzy_match_orders_blocked, lines 351-365
BlockedAllocate ==
    /\ pc = "alloc"
    /\ RunKinds[run] = "blocked"
    /\ AllocateStep

\* fuzzy_match_orders_perfect_sequential, lines 398-412
SeqAllocate ==
    /\ pc = "alloc"
    /\ RunKinds[run] = "sequential"
    /\ AllocateStep

\* return matched_results (lines 371-372 and 416-417)
Return ==
    /\ pc = "line"
    /\ r_pos = NumReceipt
    /\ EndRun("ok", matched_results, receipt_qty, matched_qty)
    /\ UNCHANGED <<receipt_df, matched_df, faulty, MATCHING, config, config_py, fn, arg, ret, r_df, m_df, index, receipt_qty,
                   matched_qty, matched_results, r_pos, remain, results, k,
                   cand, compared>>

Next ==
    \/ StartBlocked
    \/ StartSequential
    \/ BlockedLine
    \/ SeqLine
    \/ BlockedAllocate
    \/ SeqAllocate
    \/ Return

Spec == Init /\ [][Next]_vars

(***************************************************************************)
(* Further specifications: the same program on other sets of datasets      *)
(***************************************************************************)
\* the catalog of the end-to-end scenario of the specification, section 8,
\* with the stock of its two lines left open
ScenarioCatalog(q0, q1) ==
    [has_qty |-> TRUE,
     rows |-> (0 :> WithQty([brand |-> <<"a">>, name |-> Mtm, color |-> Black,
                             size |-> <<"M">>], IntCell(q0)))
           @@ (1 :> WithQty([brand |-> <<"a">>, name |-> Mtm, color |-> Black,
                             size |-> <<"7">>], IntCell(q1)))]

\* the order dataset of the scenario: one line, size 7(M), colour 검정
ScenarioReceipt(q) ==
    [has_qty |-> TRUE,
     rows |-> (0 :> WithQty([brand |-> <<"A">>, name |-> Mtm,
                             color |-> <<"<geom>", "<jeong>">>,
                             size |-> <<"7", "(", "M", ")">>], IntCell(q)))]

InitScenario ==
    InitWith({ScenarioReceipt(q) : q \in 0..2},
             {ScenarioCatalog(q0, q1) : q0 \in 0..1, q1 \in 0..5})

SpecScenario == InitScenario /\ [][Next]_vars

\* datasets whose quantity column is absent or holds malformed cells
QtyCells == IntCells(0, 2) \cup {NaNCell, TextCell}

InitQty ==
    InitWith(Datasets(0..0, RowsOf({ScenarioReceipt(0).rows[0]}, QtyCells),
                      BOOLEAN),
             Datasets(0..1, RowsOf({ScenarioCatalog(0, 0).rows[0],
                                    ScenarioCatalog(0, 0).rows[1]}, QtyCells),
                      BOOLEAN))

SpecQty == InitQty /\ [][Next]_vars

\* datasets on one pair of whose rows, at most, the scorer raises: two order
\* lines of the scenario's shape, two catalog lines of the scenario's shapes
FaultReceipts ==
    Datasets(0..1, RowsOf({ScenarioReceipt(0).rows[0]}, IntCells(1, MaxQty)),
             {TRUE})

FaultCatalogs ==
    Datasets(0..1, RowsOf({ScenarioCatalog(0, 0).rows[0],
                           ScenarioCatalog(0, 0).rows[1]}, IntCells(1, MaxQty)),
             {TRUE})

InitFault ==
    /\ InitState(FaultReceipts, FaultCatalogs,
                 {{}} \cup {{<<RawOf(r), RawOf(m)>>} :
                               r \in RowsOf({ScenarioReceipt(0).rows[0]}, {IntCell(1)}),
                               m \in RowsOf({ScenarioCatalog(0, 0).rows[0],
                                             ScenarioCatalog(0, 0).rows[1]},
                                            {IntCell(1)})},
                 {DEFAULT_MATCHING})
    /\ NoCall

SpecFault == InitFault /\ [][Next]_vars

\* settings the matcher is built on: weights, in hundredths, and cutoffs, in
\* points; a key may be absent
WeightValues == {-25, 0, 25, 60}
CutoffValues == {0, 70, 90}

WeightTables ==
    {<<>>} \cup {[name |-> w] : w \in WeightValues}
           \cup [{"brand", "name", "color", "size"} -> WeightValues]

Settings ==
    {<<>>} \cup {[weights |-> w] : w \in WeightTables}
           \cup {[name_score_cutoff |-> c, weights |-> w] :
                    c \in CutoffValues, w \in WeightTables}

\* one order line of the scenario's shape on two catalog lines, each the
\* scenario's first line or a line whose name scores 80 against the order's
ConfigCatalogs ==
    Datasets(0..1,
             RowsOf({ScenarioCatalog(0, 0).rows[0],
                     [brand |-> <<"a">>, name |-> <<"m", "t", "x", "m">>,
                      color |-> Black, size |-> <<"M", "(", "7", ")">>]},
                    {IntCell(1)}),
             {TRUE})

InitConfig ==
    /\ InitState(Datasets(0..0, RowsOf({ScenarioReceipt(0).rows[0]},
                                       IntCells(1, MaxQty)), {TRUE}),
                 ConfigCatalogs, {{}}, Settings)
    /\ NoCall

SpecConfig == InitConfig /\ [][Next]_vars

(***************************************************************************)
(* Calls of functions outside a matching run                               *)
(***************************************************************************)
RunVars ==
    <<receipt_df, matched_df, faulty, MATCHING, config, config_py, run, pc, r_df, m_df, index,
      receipt_qty, matched_qty, matched_results, r_pos, remain, results, k,
      cand, compared, finished>>

\* the matching engine at rest, on empty datasets
NoRun ==
    InitState({[has_qty |-> TRUE, rows |-> <<>>]},
              {[has_qty |-> TRUE, rows |-> <<>>]}, {{}}, {DEFAULT_MATCHING})

\* the state in which function f has been called on one of Args
Called(f, Args) ==
    /\ NoRun
    /\ fn = f
    /\ arg \in Args
    /\ ret = [stage |-> "called", val |-> <<>>]

\* the call goes on to the given stage, with the given value
Stage(s, v) ==
    /\ ret' = [stage |-> s, val |-> v]
    /\ UNCHANGED <<RunVars, fn, arg>>

(***************************************************************************)
(* Report aggregator (generate_match_report) and its caller (main).        *)
(* Confidences are in units of 1/100000 of a point.                        *)
(***************************************************************************)
\* mr.confidence_score >= 90
HighResult(mr) == mr.confidence_score >= 90 * 100000

\* a variant of the medium bucket that leaves 70 out
MediumResult_Exclusive(mr) ==
    70 * 100000 < mr.confidence_score /\ mr.confidence_score < 90 * 100000

\* 70 <= mr.confidence_score < 90
MediumResult(mr) ==
    70 * 100000 <= mr.confidence_score /\ mr.confidence_score < 90 * 100000

\* mr.confidence_score < 70
LowResult(mr) == mr.confidence_score < 70 * 100000

\* sum(mr.confidence_score for mr in match_results)
RECURSIVE SumConfidence(_)
SumConfidence(match_results) ==
    IF match_results = <<>> THEN 0
    ELSE Head(match_results).confidence_score
           + SumConfidence(Tail(match_results))

\* generate_match_report; a dict is a function of its keys, the empty dict
\* the empty function; the average is rounded down to 1/100000 of a point
generate_match_report(match_results) ==
    IF match_results = <<>>
    THEN [total_matches |-> 0, average_confidence |-> 0,
          match_distribution |-> <<>>]
    ELSE [total_matches |-> Len(match_results),
          average_confidence |->
             SumConfidence(match_results) \div Len(match_results),
          match_distribution |->
             [high_confidence |-> Len(SelectSeq(match_results, HighResult)),
              medium_confidence |-> Len(SelectSeq(match_results, MediumResult)),
              low_confidence |-> Len(SelectSeq(match_results, LowResult))]]

\* the keys main reads in the report
SummaryKeys == {"high_confidence", "medium_confidence", "low_confidence"}

\* main, line 633: report = matcher.generate_match_report(match_results)
MainReport ==
    /\ fn = "main"
    /\ ret.stage = "called"
    /\ Stage("report", generate_match_report(arg))

\* main, lines 635-642: the summary is printed; reading a key the dict does
\* not hold raises KeyError
MainSummary ==
    /\ fn = "main"
    /\ ret.stage = "report"
    /\ IF SummaryKeys \subseteq DOMAIN ret.val.match_distribution
       THEN Stage("printed", ret.val)
       ELSE Stage("KeyError", ret.val)

\* the result lists main is run on: up to MaxResults records
MaxResults == 3

ConfidenceValues ==
    {0, 70 * 100000 - 1, 70 * 100000, 90 * 100000 - 1, 90 * 100000,
     100 * 100000}

ResultLists ==
    UNION {[1..n -> {[receipt_idx |-> 0, matched_idx |-> 0,
                      confidence_score |-> c, name_score |-> 0] :
                        c \in ConfidenceValues}] : n \in 0..MaxResults}

InitReport == Called("main", ResultLists)

NextReport == MainReport \/ MainSummary

SpecReport == InitReport /\ [][NextReport]_vars

(***************************************************************************)
(* Text normalizer called on raw strings, and again on its own output      *)
(***************************************************************************)
\* the strings of up to n characters of an alphabet
Strings(Alphabet, n) == UNION {[1..m -> Alphabet] : m \in 0..n}

MaxTextLen == 4

\* raw characters: letters of both cases, a full-width letter, a digit, a
\* Hangul syllable, both white spaces and two symbols
TextChars == {"a", "M", "<fwM>", "7", "<geom>", " ", "<nbsp>", "-", "("}

InitText == Called("normalize_text_ultra", Strings(TextChars, MaxTextLen))

\* out = normalize_text_ultra(s)
NormalizeText ==
    /\ fn = "normalize_text_ultra"
    /\ ret.stage = "called"
    /\ Stage("returned", normalize_text_ultra(arg))

\* normalize_text_ultra(out)
NormalizeTextAgain ==
    /\ fn = "normalize_text_ultra"
    /\ ret.stage = "returned"
    /\ Stage("again", normalize_text_ultra(ret.val))

NextText == NormalizeText \/ NormalizeTextAgain

SpecText == InitText /\ [][NextText]_vars

(***************************************************************************)
(* Recomputation of the cached colour and name columns on their own        *)
(* output, under configured tables                                         *)
(***************************************************************************)
\* the name column of _precompute_normalized_columns, with an explicit table
NameWith(groups, s) == ApplySynonymsWith(groups, normalize_text_ultra(s))

MaxEntries == 2
MaxRawLen == 3

RawChars == {"a", "7", "M", " "}
AliasKeys == {<<"a">>, <<"7">>}
AliasValues == {<<"a">>, <<"7">>, <<"M">>}

\* COLOR_ALIASES: dicts of up to MaxEntries entries, keys distinct
AliasTables ==
    {table \in Strings([k : AliasKeys, v : AliasValues], MaxEntries) :
        \A i, j \in 1..Len(table) : table[i].k = table[j].k => i = j}

GroupCanons == {<<"a">>, <<"a", "7">>, <<"M">>}
GroupVariants == {<<"a">>, <<"7">>}

\* NAME_SYNONYM_GROUPS: dicts of up to MaxEntries groups of one variant
GroupTables ==
    {table \in Strings([canon : GroupCanons,
                        variants : {<<v>> : v \in GroupVariants}], MaxEntries) :
        \A i, j \in 1..Len(table) : table[i].canon = table[j].canon => i = j}

InitRecompute ==
    \/ Called("normalize_color_ultra",
              [s : Strings(RawChars, MaxRawLen), table : AliasTables])
    \/ Called("name_n",
              [s : Strings(RawChars, MaxRawLen), table : GroupTables])

\* color_n = normalize_color_ultra(x)
NormalizeColor ==
    /\ fn = "normalize_color_ultra"
    /\ ret.stage = "called"
    /\ Stage("returned", NormalizeColorWith(arg.table, arg.s))

\* normalize_color_ultra(color_n)
NormalizeColorAgain ==
    /\ fn = "normalize_color_ultra"
    /\ ret.stage = "returned"
    /\ Stage("again", NormalizeColorWith(arg.table, ret.val))

\* name_n = apply_bidir_synonyms_text(normalize_text_ultra(x))
CanonicalizeName ==
    /\ fn = "name_n"
    /\ ret.stage = "called"
    /\ Stage("returned", NameWith(arg.table, arg.s))

\* apply_bidir_synonyms_text(normalize_text_ultra(name_n))
CanonicalizeNameAgain ==
    /\ fn = "name_n"
    /\ ret.stage = "returned"
    /\ Stage("again", NameWith(arg.table, ret.val))

NextRecompute ==
    \/ NormalizeColor
    \/ NormalizeColorAgain
    \/ CanonicalizeName
    \/ CanonicalizeNameAgain

SpecRecompute == InitRecompute /\ [][NextRecompute]_vars

(***************************************************************************)
(* Size tokenizer called on raw size strings written as delimited tokens   *)
(***************************************************************************)
\* the values written inside and outside the parentheses
SizeParts ==
    {<<"7">>, <<"9">>, <<"M">>, <<"L">>, <<"X", "L">>, <<"2", "X", "L">>,
     <<"1", "0", "0">>, <<"1", "1", "0">>, <<"-">>}

\* a token and how it was written: outside(inside), or anything else
ParenToken(p, q) ==
    [text |-> p \o <<"(">> \o q \o <<")">>, paren |-> TRUE,
     outside |-> p, inside |-> q]

OtherToken(text) ==
    [text |-> text, paren |-> FALSE, outside |-> <<>>, inside |-> <<>>]

SizeTokens ==
    {ParenToken(p, q) : p, q \in SizeParts}
      \cup {OtherToken(p) : p \in SizeParts}
      \cup {OtherToken(<<"(", "M", ")">>), OtherToken(<<"7", "(", ")">>),
            OtherToken(<<"7", "(", "M">>), OtherToken(<<"7", "(", "M", ")", "9">>),
            OtherToken(<<"7", "(", "M", ")", "(", "L", ")">>)}

\* what separates two tokens
SizeDelimiters == {<<" ">>, <<",", " ">>, <<"/">>, <<"|">>, <<"~">>}

\* SIZE_SYNONYMS as an input: no group, one group, a group over the parts
SizeTables ==
    {<<>>,
     << [canon |-> <<"x", "x", "l">>, variants |-> << <<"2", "x", "l">> >>] >>,
     << [canon |-> <<"l">>, variants |-> << <<"x", "l">>, <<"9">> >>] >>}

\* raw size strings of one token, or of two tokens and a delimiter
SizeInputs ==
    {[s |-> a.text, toks |-> <<a>>] : a \in SizeTokens}
      \cup {[s |-> a.text \o d \o b.text, toks |-> <<a, b>>] :
               a \in SizeTokens, b \in SizeTokens, d \in SizeDelimiters}

InitSize ==
    Called("extract_size_parts_ultra",
           {[s |-> x.s, toks |-> x.toks, table |-> table] :
               x \in SizeInputs, table \in SizeTables})

\* tokens = extract_size_parts_ultra(s)
ExtractSize ==
    /\ fn = "extract_size_parts_ultra"
    /\ ret.stage = "called"
    /\ Stage("returned", ExtractSizePartsWith(arg.table, arg.s))

NextSize == ExtractSize

SpecSize == InitSize /\ [][NextSize]_vars

(***************************************************************************)
(* The size gate of the scorer on the raw sizes of an order line and a     *)
(* catalog line without cached columns                                     *)
(***************************************************************************)
InitSizeGate ==
    Called("size_gate", [r : SizeTokens, m : SizeTokens, table : SizeTables])

\* rs, ms = the extracted token sets; not rs or not ms or no intersection
\* rejects the pair
SizeGateCall ==
    /\ fn = "size_gate"
    /\ ret.stage = "called"
    /\ Stage("returned",
             SizeGate(ExtractSizePartsWith(arg.table, arg.r.text),
                      ExtractSizePartsWith(arg.table, arg.m.text)))

NextSizeGate == SizeGateCall

SpecSizeGate == InitSizeGate /\ [][NextSizeGate]_vars

(***************************************************************************)
(* Size-token canonicalizer called on tokens under configured tables       *)
(***************************************************************************)
MaxTokenLen == 3

SizeTokenChars == {"2", "x", "l", "X"}

\* canonical labels and variants as they may be configured
SizeLabels ==
    {<<"x", "l">>, <<"2", "x", "l">>, <<"x", "x", "l">>, <<"X", "L">>}

\* SIZE_SYNONYMS: dicts of up to MaxEntries groups of one variant
SynonymTables ==
    {table \in Strings([canon : SizeLabels,
                        variants : {<<v>> : v \in SizeLabels}], MaxEntries) :
        \A i, j \in 1..Len(table) : table[i].canon = table[j].canon => i = j}

InitSizeToken ==
    Called("_normalize_size_token",
           [tok : Strings(SizeTokenChars, MaxTokenLen), table : SynonymTables])

\* _normalize_size_token(tok)
NormalizeSizeToken ==
    /\ fn = "_normalize_size_token"
    /\ ret.stage = "called"
    /\ Stage("returned", NormalizeSizeTokenWith(arg.table, arg.tok))

NextSizeToken == NormalizeSizeToken

SpecSizeToken == InitSizeToken /\ [][NextSizeToken]_vars

(***************************************************************************)
(* Configuration update (update_config of app.py) in the process that      *)
(* makes the matching runs (process_matching)                              *)
(***************************************************************************)
\* the key of the posted data that update_config copies to each attribute
\* of config
ConfigKey ==
    [NAME_SYNONYM_GROUPS |-> "name_synonyms",
     SIZE_SYNONYMS |-> "size_synonyms",
     COLOR_ALIASES |-> "color_aliases",
     MATCHING |-> "matching_settings",
     EXCEL_COLORS |-> "excel_colors"]

\* the values a request posts under each key: tables without entries,
\* settings with another cutoff and another name weight, other fills
Posted ==
    [name_synonyms |-> {<<>>},
     size_synonyms |-> {<<>>},
     color_aliases |-> {<<>>},
     matching_settings |->
        {DEFAULT_MATCHING,
         [name_score_cutoff |-> 90,
          weights |-> [brand |-> weight_brand, name |-> 60,
                       color |-> weight_color, size |-> weight_size]]},
     excel_colors |-> {[cyan |-> "blue", yellow |-> "yellow", red |-> "red"]}]

\* the posted data: some of the keys, each with one of its values
Bodies ==
    UNION {{data \in [K -> UNION {Posted[x] : x \in K}] :
               \A x \in K : data[x] \in Posted[x]} :
           K \in SUBSET DOMAIN Posted}

\* a request to /api/config: whether request.get_json() yields a dict, the
\* dict, and whether config.py can be opened for writing
Requests ==
    {[json |-> FALSE, data |-> <<>>, writable |-> TRUE]}
       \cup [json : {TRUE}, data : Bodies, writable : BOOLEAN]

\* the if statements of update_config (lines 75-88): config.X = data[key]
\* for every key in data
Updated(cfg, data) ==
    [a \in DOMAIN cfg |->
        IF ConfigKey[a] \in DOMAIN data THEN data[ConfigKey[a]] ELSE cfg[a]]

\* jsonify({'success': ...})
Response(success) ==
    [stage |-> "returned", val |-> [success |-> success]]

\* update_config: the attributes of the module config are set to the posted
\* values and written to config.py; an exception (no JSON body, config.py
\* not writable) is answered with success False.  No name of match.py is
\* assigned to and no module is imported again
update_config ==
    /\ fn = "update_config"
    /\ ret.stage = "called"
    /\ IF ~arg.json
       THEN /\ UNCHANGED <<config, config_py>>
            /\ ret' = Response(FALSE)
       ELSE /\ config' = Updated(config, arg.data)
            /\ IF arg.writable
               THEN /\ config_py' = config'
                    /\ ret' = Response(TRUE)
               ELSE /\ UNCHANGED config_py
                    /\ ret' = Response(FALSE)
    /\ UNCHANGED <<receipt_df, matched_df, faulty, MATCHING, fn, arg, run, pc,
                   r_df, m_df, index, receipt_qty, matched_qty,
                   matched_results, r_pos, remain, results, k, cand,
                   compared, finished>>

\* the process: match.py imported with the default settings or with
\* settings without keys, one request to /api/config that arrives before,
\* between or during the runs, on one order line and two catalog lines
InitUpdate ==
    /\ InitState(Datasets(0..0, RowsOf({ScenarioReceipt(0).rows[0]},
                                       IntCells(1, MaxQty)), {TRUE}),
                 ConfigCatalogs, {{}}, {DEFAULT_MATCHING, <<>>})
    /\ fn = "update_config"
    /\ arg \in Requests
    /\ ret = [stage |-> "called", val |-> <<>>]

NextUpdate == update_config \/ Next

SpecUpdate == InitUpdate /\ [][NextUpdate]_vars

(***************************************************************************)
(* Properties                                                              *)
(***************************************************************************)
\* the number of records of out that reference order line r / catalog line m
CountReceipt(out, r) ==
    Cardinality({i \in 1..Len(out) : out[i].receipt_idx = r})
CountMatched(out, m) ==
    Cardinality({i \in 1..Len(out) : out[i].matched_idx = m})

\* a result sequence allocates no more than the declared quantities
Conserves(out) ==
    /\ \A r \in DOMAIN receipt_df.rows :
          CountReceipt(out, r) <= QtyMap(receipt_df)[r]
    /\ \A m \in DOMAIN matched_df.rows :
          CountMatched(out, m) <= QtyMap(matched_df)[m]

\* C1: quantity conservation.  At every point of every run, of the blocked
\* and of the sequential matcher, and in what every completed run returned,
\* the records referencing an order line are no more than its original
\* quantity and the records referencing a catalog line no more than its
\* original stock.
C1_QuantityConservation ==
    /\ pc \in {"line", "alloc"} => Conserves(matched_results)
    /\ \A i \in 1..Len(finished) :
          finished[i].status = "ok" => Conserves(finished[i].results)

\* a completed run in which a catalog line with stock was used up and an
\* order line was served in part only
C1_Witness ==
    \E i \in 1..Len(finished) :
       /\ finished[i].status = "ok"
       /\ \E m \in DOMAIN matched_df.rows :
             /\ QtyMap(matched_df)[m] = MaxQty
             /\ CountMatched(finished[i].results, m) = MaxQty
       /\ \E r \in DOMAIN receipt_df.rows :
             /\ CountReceipt(finished[i].results, r) > 0
             /\ CountReceipt(finished[i].results, r) < QtyMap(receipt_df)[r]

\* the four gates, on the rows as the run under way sees them
PairPasses(r, m) ==
    /\ SizesOf(r_df[r]) \cap SizesOf(m_df[m]) # {}
    /\ BrandOf(r_df[r]) = BrandOf(m_df[m])
    /\ ColorOf(r_df[r]) = ColorOf(m_df[m])
    /\ NameOf(r_df[r]) # <<>>
    /\ NameOf(m_df[m]) # <<>>
    /\ partial_ratio(NameOf(r_df[r]), NameOf(m_df[m]))
          >= 1000 * Self.name_score_cutoff

\* the pairs of lines a result sequence has records for
PairsOf(out) ==
    {<<out[i].receipt_idx, out[i].matched_idx>> : i \in 1..Len(out)}

\* C2: threshold behaviour.  Every emitted record pairs lines with equal
\* normalized brands, equal normalized colours, intersecting size-token sets
\* and a name score of at least the cutoff; and for every pair of lines that
\* fails one of these the scorer returns accepted = false, confidence 0.
\* (Records are only ever appended, so the records are examined each time the
\* run stands between two order lines; the rows do not change during a run,
\* so the scorer is examined on every pair when the run enters its loop.)
C2_Threshold ==
    /\ pc = "line" =>
          \A p \in PairsOf(matched_results) : PairPasses(p[1], p[2])
    /\ (pc = "line" /\ r_pos = 0) =>
          \A r \in DOMAIN r_df, m \in DOMAIN m_df :
             ~PairPasses(r, m) =>
                LET sc == calculate_match_confidence_perfect(r_df[r], m_df[m])
                IN  ~sc.ok /\ sc.conf = 0

\* a run that has emitted records and has rejected, at the name gate, a pair
\* that passes the size, brand and colour gates
C2_Witness ==
    /\ pc = "line"
    /\ matched_results # <<>>
    /\ \E c \in compared :
          /\ c.by = "scorer"
          /\ ~PairPasses(c.r, c.m)
          /\ \A i \in 1..Len(matched_results) :
                ~(/\ matched_results[i].receipt_idx = c.r
                  /\ matched_results[i].matched_idx = c.m)

\* C3: an allocation step of an order line against a candidate with stock
\* takes exactly N = min(order remaining, catalog remaining) units: it
\* appends N records, all for that pair, and takes N off both counters and
\* off no other.
C3_AllocationStep ==
    [][(pc = "alloc" /\ matched_qty[results[k].m_idx] > 0) =>
          LET r == LineAt(r_pos)
              m == results[k].m_idx
              N == Min(receipt_qty[r], matched_qty[m])
          IN  /\ Len(matched_results') = Len(matched_results) + N
              /\ SubSeq(matched_results', 1, Len(matched_results))
                   = matched_results
              /\ \A i \in (Len(matched_results) + 1)..Len(matched_results') :
                    /\ matched_results'[i].receipt_idx = r
                    /\ matched_results'[i].matched_idx = m
              /\ receipt_qty' = [receipt_qty EXCEPT ![r] = receipt_qty[r] - N]
              /\ matched_qty' = [matched_qty EXCEPT ![m] = matched_qty[m] - N]
      ]_vars

\* a run whose first allocation step has taken two units of one pair
C3_Witness ==
    /\ pc \in {"line", "alloc"}
    /\ Len(matched_results) >= 2
    /\ matched_results[1] = matched_results[2]
    /\ matched_qty[matched_results[1].matched_idx]
         = QtyMap(matched_df)[matched_results[1].matched_idx] - 2
    /\ receipt_qty[matched_results[1].receipt_idx]
         = QtyMap(receipt_df)[matched_results[1].receipt_idx] - 2


\* C4: determinism.  Any two completed runs of the same matcher on the same
\* two datasets have returned the same sequence of records: same pairs, same
\* confidences, same order, whatever the order in which the size-token set
\* of an order line was iterated.
C4_Determinism ==
    \A i, j \in 1..Len(finished) :
       (/\ finished[i].kind = finished[j].kind
        /\ finished[i].status = "ok"
        /\ finished[j].status = "ok")
          => finished[i].results = finished[j].results

\* C5: tie-break.  In the sorted list of accepted candidates of an order
\* line, of the blocked and of the sequential matcher, of two catalog lines
\* with equal confidence the one that is first in the catalog dataset comes
\* first, and so is consumed first.
C5_TieBreak ==
    pc = "alloc" =>
       \A i, j \in 1..Len(results) :
          (/\ results[i].conf = results[j].conf
           /\ results[i].m_idx < results[j].m_idx)
             => \E h \in 1..(j - 1) : results[h].m_idx = results[i].m_idx

\* the input of the end-to-end scenario: an order line of quantity 2, a
\* first catalog line of stock 1 and a second of stock 5
IsScenario ==
    /\ receipt_df = ScenarioReceipt(2)
    /\ matched_df = ScenarioCatalog(1, 5)

\* C6: end-to-end scenario.  Every completed run on the scenario has
\* allocated one unit to the first catalog line and one to the second, and
\* has left catalog quantities 0 and 4 and order quantity 0.
C6_Scenario ==
    IsScenario =>
       \A i \in 1..Len(finished) :
          /\ finished[i].status = "ok"
          /\ CountMatched(finished[i].results, 0) = 1
          /\ CountMatched(finished[i].results, 1) = 1
          /\ finished[i].matched_qty[0] = 0
          /\ finished[i].matched_qty[1] = 4
          /\ finished[i].receipt_qty[0] = 0

\* the catalog lines of each tier for the order line of the last retrieval,
\* read off the rows
TierSet(t) ==
    {m \in DOMAIN m_df :
        /\ m_df[m].brand_n = r_df[cand.r].brand_n
        /\ t <= 2 => m_df[m].color_n = r_df[cand.r].color_n
        /\ t <= 1 => m_df[m].sizes_s \cap r_df[cand.r].sizes_s # {}}

\* the lines of a set that had stock when the last retrieval was made
InStock(S) == {m \in S : cand.stock[m] > 0}

\* the first tier that is non-empty after the stock filter, filtered
FirstInStockTier ==
    IF InStock(TierSet(1)) # {} THEN InStock(TierSet(1))
    ELSE IF InStock(TierSet(2)) # {} THEN InStock(TierSet(2))
    ELSE InStock(TierSet(3))

\* the first tier that is non-empty before the stock filter
FirstTier ==
    IF TierSet(1) # {} THEN 1
    ELSE IF TierSet(2) # {} THEN 2
    ELSE IF TierSet(3) # {} THEN 3
    ELSE 0

\* C7 as stated: the candidates of a retrieval are the lines with stock of
\* the first tier that has a line with stock.
C7_FirstTierAfterFilter ==
    cand.valid => Range(cand.ids) = FirstInStockTier

\* C7, amended: the tiers are tried in order and the first tier whose lookup
\* is non-empty, out-of-stock lines counted, is taken; the stock filter is
\* applied to that tier only, and an emptied tier is not followed by a
\* lookup in the next one.
C7_FirstTierThenFilter ==
    cand.valid =>
       /\ cand.tier = FirstTier
       /\ Range(cand.raw) = (IF cand.tier = 0 THEN {} ELSE TierSet(cand.tier))
       /\ Range(cand.ids) = InStock(Range(cand.raw))

\* a retrieval whose tier 1 held only lines without stock while a line of the
\* same brand and colour had stock
C7_Witness ==
    /\ cand.valid
    /\ cand.tier = 1
    /\ cand.raw # <<>>
    /\ cand.ids = <<>>
    /\ InStock(TierSet(2)) # {}

\* the size-token sets of the two lines of a comparison intersect
SizesMeet(c) == SizesOf(r_df[c.r]) \cap SizesOf(m_df[c.m]) # {}

\* C8 as stated: no name comparison made during a run is for a pair of lines
\* with disjoint size-token sets.
C8_NoNameComparisonWhenDisjoint ==
    pc \in {"line", "alloc"} => \A c \in compared : SizesMeet(c)

\* C8, amended: the scorer compares the names of a pair only after its size,
\* brand and colour gates have passed; the name comparison the blocked
\* matcher makes on its candidates before it calls the scorer is for lines of
\* the brand of the order line that had stock, whatever their sizes.
C8_ScorerGatesBeforeName ==
    pc \in {"line", "alloc"} =>
       \A c \in compared :
          /\ c.by = "scorer" =>
                /\ SizesMeet(c)
                /\ BrandOf(r_df[c.r]) = BrandOf(m_df[c.m])
                /\ ColorOf(r_df[c.r]) = ColorOf(m_df[c.m])
          /\ c.by = "extract" =>
                /\ RunKinds[run] = "blocked"
                /\ BrandOf(r_df[c.r]) = BrandOf(m_df[c.m])

\* a pair with disjoint size-token sets whose names the blocked matcher has
\* compared and the scorer has not
C8_Witness ==
    /\ pc \in {"line", "alloc"}
    /\ \E c \in compared :
          /\ c.by = "extract"
          /\ ~SizesMeet(c)
          /\ [r |-> c.r, m |-> c.m, by |-> "scorer"] \notin compared

\* C9: order lines are processed once each, in dataset order.  The records
\* of an earlier order line precede those of a later one; there are records
\* only of the lines the loop has reached; the counters of a line the loop
\* has not reached are untouched; and the stock a line finds is the original
\* stock less the records emitted so far.
C9_DatasetOrder ==
    pc \in {"line", "alloc"} =>
       /\ \A i, j \in 1..Len(matched_results) :
             i < j => matched_results[i].receipt_idx
                         <= matched_results[j].receipt_idx
       /\ \A i \in 1..Len(matched_results) :
             \/ matched_results[i].receipt_idx < r_pos
             \/ pc = "alloc" /\ matched_results[i].receipt_idx = r_pos
       /\ \A r \in DOMAIN receipt_qty :
             /\ receipt_qty[r] =
                  QtyMap(receipt_df)[r] - CountReceipt(matched_results, r)
             /\ r > r_pos => receipt_qty[r] = QtyMap(receipt_df)[r]
       /\ \A m \in DOMAIN matched_qty :
             matched_qty[m] =
                QtyMap(matched_df)[m] - CountMatched(matched_results, m)

\* a run in which the second order line got less than it asked for, after
\* the first order line had taken stock
C9_Witness ==
    /\ pc = "line"
    /\ r_pos = NumReceipt
    /\ CountReceipt(matched_results, 0) > 0
    /\ CountReceipt(matched_results, 1) > 0
    /\ receipt_qty[1] > 0
    /\ \E m \in DOMAIN matched_qty :
          /\ matched_qty[m] = 0
          /\ \E i, j \in 1..Len(matched_results) :
                /\ matched_results[i].matched_idx = m
                /\ matched_results[i].receipt_idx = 0
                /\ matched_results[j].matched_idx = m
                /\ matched_results[j].receipt_idx = 1

\* the quantity field of line i of a dataset is missing or not a number
Malformed(df, i) == ~df.has_qty \/ df.rows[i].qty.kind # "int"

\* C10: malformed quantity recovery.  No run fails, and in every run a line
\* whose quantity field is missing or not a number has counted as a line of
\* quantity 1.
C10_MalformedQuantity ==
    \A i \in 1..Len(finished) :
       /\ finished[i].status = "ok"
       /\ \A r \in DOMAIN receipt_df.rows :
             Malformed(receipt_df, r) =>
                finished[i].receipt_qty[r]
                   + CountReceipt(finished[i].results, r) = 1
       /\ \A m \in DOMAIN matched_df.rows :
             Malformed(matched_df, m) =>
                finished[i].matched_qty[m]
                   + CountMatched(finished[i].results, m) = 1

\* C11: scoring-exception isolation.  A pair of lines the scorer raises on
\* is reported as not accepted with confidence 0 and gets no record; the
\* counters change by the emitted records only; no run is aborted; and the
\* run goes on with the other candidates and order lines: when the loop
\* ends, a pair that passes the four gates and has quantity left on both
\* sides is a pair the scorer raised on.
C11_ScoringIsolation ==
    /\ \A i \in 1..Len(finished) : finished[i].status = "ok"
    /\ pc \in {"line", "alloc"} =>
          /\ \A p \in PairsOf(matched_results) :
                ~Raises(r_df[p[1]], m_df[p[2]])
          /\ \A r \in DOMAIN receipt_qty :
                receipt_qty[r] =
                   QtyMap(receipt_df)[r] - CountReceipt(matched_results, r)
          /\ \A m \in DOMAIN matched_qty :
                matched_qty[m] =
                   QtyMap(matched_df)[m] - CountMatched(matched_results, m)
    /\ (pc = "line" /\ r_pos = 0) =>
          \A r \in DOMAIN r_df, m \in DOMAIN m_df :
             Raises(r_df[r], m_df[m]) =>
                LET sc == calculate_match_confidence_perfect(r_df[r], m_df[m])
                IN  ~sc.ok /\ sc.conf = 0
    /\ (pc = "line" /\ r_pos = NumReceipt) =>
          \A r \in DOMAIN r_df, m \in DOMAIN m_df :
             (receipt_qty[r] > 0 /\ matched_qty[m] > 0 /\ PairPasses(r, m))
                => Raises(r_df[r], m_df[m])

\* a run at the end of its loop that has emitted records and has left
\* quantity on both sides of a pair that passes the gates, the scorer having
\* raised on it
C11_Witness ==
    /\ pc = "line"
    /\ r_pos = NumReceipt
    /\ matched_results # <<>>
    /\ \E r \in DOMAIN r_df, m \in DOMAIN m_df :
          /\ Raises(r_df[r], m_df[m])
          /\ PairPasses(r, m)
          /\ receipt_qty[r] > 0
          /\ matched_qty[m] > 0

\* the sum of the configured weights, in hundredths
TotalWeight ==
    Self.weight_brand + Self.weight_name + Self.weight_color + Self.weight_size

\* C12: for every emitted record, the name score is the fuzzy ratio of the
\* two names and is at least the cutoff, and the confidence is the direct
\* weighted sum 100 * w_brand + name_score * w_name + 100 * w_color
\* + 100 * w_size of the configured weights, not divided by their total.
C12_WeightedSum ==
    pc \in {"line", "alloc"} =>
       \A i \in 1..Len(matched_results) :
          LET rec == matched_results[i]
          IN  /\ rec.name_score =
                   partial_ratio(NameOf(r_df[rec.receipt_idx]),
                                 NameOf(m_df[rec.matched_idx]))
              /\ rec.name_score >= 1000 * Self.name_score_cutoff
              /\ rec.confidence_score =
                   100000 * Self.weight_brand
                     + rec.name_score * Self.weight_name
                     + 100000 * Self.weight_color
                     + 100000 * Self.weight_size

\* a record with a name score of 80 emitted under weights that do not sum
\* to 1
C12_Witness ==
    /\ pc \in {"line", "alloc"}
    /\ TotalWeight \notin {0, 100}
    /\ \E i \in 1..Len(matched_results) :
          matched_results[i].name_score = 80000

\* C13 as stated: every emitted record carries a confidence in [0, 100],
\* whatever the weights and the cutoff.
C13_ConfidenceRange ==
    pc \in {"line", "alloc"} =>
       \A i \in 1..Len(matched_results) :
          /\ matched_results[i].confidence_score >= 0
          /\ matched_results[i].confidence_score <= 100 * 100000

\* the weights are not negative and sum to 1 at most
WeightsInRange ==
    /\ Self.weight_brand >= 0
    /\ Self.weight_name >= 0
    /\ Self.weight_color >= 0
    /\ Self.weight_size >= 0
    /\ TotalWeight <= 100

\* C13, amended: every emitted record carries a confidence in [0, 100] when
\* the weights are not negative and sum to 1 at most, whatever the cutoff.
C13_ConfidenceRangeOfValidWeights ==
    (pc \in {"line", "alloc"} /\ WeightsInRange) =>
       \A i \in 1..Len(matched_results) :
          /\ matched_results[i].confidence_score >= 0
          /\ matched_results[i].confidence_score <= 100 * 100000

\* records emitted under weights other than the default ones that sum to 1
\* exactly: one with confidence 100 and one with less
C13_Witness ==
    /\ pc \in {"line", "alloc"}
    /\ WeightsInRange
    /\ TotalWeight = 100
    /\ Self.weight_name # weight_name
    /\ \E i, j \in 1..Len(matched_results) :
          /\ matched_results[i].confidence_score = 100 * 100000
          /\ matched_results[j].confidence_score < 100 * 100000

\* C14: on an empty result list the report is all zero: total 0, average
\* confidence 0, and a distribution that holds a high, a medium and a low
\* count, each 0; and main, which reads the three counts, gets them.
C14_EmptyReport ==
    (fn = "main" /\ arg = <<>> /\ ret.stage # "called") =>
       /\ ret.val.total_matches = 0
       /\ ret.val.average_confidence = 0
       /\ SummaryKeys \subseteq DOMAIN ret.val.match_distribution
       /\ \A key \in SummaryKeys : ret.val.match_distribution[key] = 0
       /\ ret.stage # "KeyError"

\* the number of results at the positions of a set
CountAt(S) == Cardinality(S)

\* C15: on a non-empty result list the total of the report is the number of
\* results, the high count is the number of results with confidence >= 90,
\* the medium count the number with 70 <= confidence < 90, the low count the
\* number with confidence < 70, and the three counts add up to the total.
C15_Buckets ==
    (fn = "main" /\ arg # <<>> /\ ret.stage # "called") =>
       LET dist == ret.val.match_distribution
           conf(i) == arg[i].confidence_score
       IN  /\ ret.val.total_matches = Len(arg)
           /\ dist.high_confidence =
                CountAt({i \in 1..Len(arg) : conf(i) >= 9000000})
           /\ dist.medium_confidence =
                CountAt({i \in 1..Len(arg) :
                            conf(i) >= 7000000 /\ conf(i) < 9000000})
           /\ dist.low_confidence =
                CountAt({i \in 1..Len(arg) : conf(i) < 7000000})
           /\ dist.high_confidence + dist.medium_confidence
                + dist.low_confidence = ret.val.total_matches

\* a printed report of three results, one of confidence exactly 70, one of
\* exactly 90 and one just below 70
C15_Witness ==
    /\ fn = "main"
    /\ ret.stage = "printed"
    /\ Len(arg) = 3
    /\ {arg[i].confidence_score : i \in 1..3} = {6999999, 7000000, 9000000}

\* a string of digits, lowercase Latin letters, Hangul syllables and single
\* interior spaces, with no space at either end
IsCleanText(s) ==
    /\ \A i \in 1..Len(s) : s[i] \in Digits \cup LowerLatin \cup Hangul \cup {" "}
    /\ s # <<>> => s[1] # " " /\ s[Len(s)] # " "
    /\ \A i \in 1..Len(s) - 1 : ~(s[i] = " " /\ s[i + 1] = " ")

\* C16: the output of normalize_text_ultra holds only digits, lowercase
\* Latin letters, Hangul syllables and single interior spaces, has no space
\* at either end, and normalizing it again gives the same string.
C16_NormalizeTextIdempotent ==
    /\ (fn = "normalize_text_ultra" /\ ret.stage \in {"returned", "again"})
          => IsCleanText(ret.val)
    /\ (fn = "normalize_text_ultra" /\ ret.stage = "again")
          => ret.val = normalize_text_ultra(arg)

\* a raw string with a symbol, an uppercase letter and an outer space, whose
\* output has an interior space and was normalized again
C16_Witness ==
    /\ fn = "normalize_text_ultra"
    /\ ret.stage = "again"
    /\ arg # ret.val
    /\ \E i \in 1..Len(arg) : arg[i] = "-"
    /\ \E i \in 1..Len(arg) : arg[i] \in {"M", "<fwM>"}
    /\ arg[1] \in WhiteSpace
    /\ \E i \in 1..Len(ret.val) : ret.val[i] = " "

\* C17: for every raw value, every colour-alias table and every name-synonym
\* table, normalizing an already normalized colour again, and normalizing
\* and canonicalizing an already canonicalized name again, returns the same
\* string.
C17_RecomputeIdempotent ==
    /\ (fn = "normalize_color_ultra" /\ ret.stage = "again")
          => ret.val = NormalizeColorWith(arg.table, arg.s)
    /\ (fn = "name_n" /\ ret.stage = "again")
          => ret.val = NameWith(arg.table, arg.s)

\* the colour half of C17 alone
C17_ColorIdempotent ==
    (fn = "normalize_color_ultra" /\ ret.stage = "again")
       => ret.val = NormalizeColorWith(arg.table, arg.s)

\* the name half of C17 alone
C17_NameIdempotent ==
    (fn = "name_n" /\ ret.stage = "again")
       => ret.val = NameWith(arg.table, arg.s)

\* the values a token stands for: outside and inside, or the token itself
ValuesOf(tok) == IF tok.paren THEN {tok.outside, tok.inside} ELSE {tok.text}

\* a value lower-cased and stripped of other characters
Stripped(v) == SelectSeq(MapSeq(v, LowerChar), IsAlnum)

\* the example strings of C18 and what they give when no group names them
ExampleSizes ==
    (arg.table = <<>> /\ arg.s = <<"7", "(", "M", ")", ",", " ", "9", "(", "L", ")">>
        => ret.val = {<<"7">>, <<"m">>, <<"9">>, <<"l">>})
    /\ (arg.table = <<>> /\ arg.s = <<"X", "L", "(", "1", "0", "0", ")">>
        => ret.val = {<<"x", "l">>, <<"1", "0", "0">>})

\* C18: every delimited token outside(inside) with both parts non-empty
\* emits its outside and its inside value, every other token emits one
\* value, each lower-cased, stripped of other characters and canonicalized;
\* the result is the set of these values.
C18_SizeExtraction ==
    (fn = "extract_size_parts_ultra" /\ ret.stage = "returned") =>
       /\ ret.val =
            {NormalizeSizeTokenWith(arg.table, Stripped(v)) :
                v \in UNION {ValuesOf(arg.toks[i]) : i \in 1..Len(arg.toks)}}
       /\ ExampleSizes

\* C18, amended: as C18, but a value of which nothing is left after the
\* stripping is not emitted.
C18_SizeExtractionOfNonEmptyValues ==
    (fn = "extract_size_parts_ultra" /\ ret.stage = "returned") =>
       /\ ret.val =
            {NormalizeSizeTokenWith(arg.table, Stripped(v)) :
                v \in {w \in UNION {ValuesOf(arg.toks[i]) : i \in 1..Len(arg.toks)} :
                          Stripped(w) # <<>>}}
       /\ ExampleSizes

\* the string "7(M), 9(L)" has been tokenized into four values
C18_Witness ==
    /\ fn = "extract_size_parts_ultra"
    /\ ret.stage = "returned"
    /\ arg.s = <<"7", "(", "M", ")", ",", " ", "9", "(", "L", ")">>
    /\ Cardinality(ret.val) = 4

\* the size tokens a written token stands for under a synonym table
TokensOf(tok, table) ==
    {NormalizeSizeTokenWith(table, Stripped(v)) :
        v \in {w \in ValuesOf(tok) : Stripped(w) # <<>>}}

\* the gate's answer on two raw sizes, when no synonym group is configured
GateOn(r, m, answer) ==
    (arg.table = <<>> /\ arg.r.text = r /\ arg.m.text = m) => ret.val = answer

\* C19: two raw sizes pass the size gate exactly when their token sets share
\* a token; a bare size passes against a(b) when it equals a or b; 7 vs 7(M),
\* 9 vs M(9) and XL vs XL(110) pass, 7(M) vs L(9) does not.
C19_SizeGate ==
    (fn = "size_gate" /\ ret.stage = "returned") =>
       /\ ret.val = (TokensOf(arg.r, arg.table) \cap TokensOf(arg.m, arg.table) # {})
       /\ (/\ ~arg.r.paren
           /\ arg.m.paren
           /\ Stripped(arg.r.text) # <<>>
           /\ Stripped(arg.r.text)
                \in {Stripped(arg.m.outside), Stripped(arg.m.inside)})
            => ret.val
       /\ (/\ arg.r.paren
           /\ ~arg.m.paren
           /\ Stripped(arg.m.text) # <<>>
           /\ Stripped(arg.m.text)
                \in {Stripped(arg.r.outside), Stripped(arg.r.inside)})
            => ret.val
       /\ GateOn(<<"7">>, <<"7", "(", "M", ")">>, TRUE)
       /\ GateOn(<<"9">>, <<"M", "(", "9", ")">>, TRUE)
       /\ GateOn(<<"X", "L">>, <<"X", "L", "(", "1", "1", "0", ")">>, TRUE)
       /\ GateOn(<<"7", "(", "M", ")">>, <<"L", "(", "9", ")">>, FALSE)

\* the gate has let 9 through against M(9)
C19_Witness ==
    /\ fn = "size_gate"
    /\ ret.stage = "returned"
    /\ arg.r.text = <<"9">>
    /\ arg.m.text = <<"M", "(", "9", ")">>
    /\ arg.table = <<>>
    /\ ret.val

\* does v occur in s as a substring
Contains(s, v) ==
    \E i \in 1..(Len(s) - Len(v) + 1) : SubSeq(s, i, i + Len(v) - 1) = v

\* the groups of the table that a token equals: their label or a variant
GroupsOf(table, tok) ==
    {i \in 1..Len(table) :
        tok = table[i].canon \/ tok \in Range(table[i].variants)}

\* with the group {xxl: [2xl]}, 2xl gives xxl
ExampleToken ==
    (/\ arg.table = << [canon |-> <<"x", "x", "l">>,
                        variants |-> << <<"2", "x", "l">> >>] >>
     /\ arg.tok = <<"2", "x", "l">>)
       => ret.val = <<"x", "x", "l">>

\* C20: a token equal to a canonical label or to one of its variants gives
\* that canonical label, and a token equal to none of them, one that merely
\* contains a variant included, is returned unchanged.
C20_FullEquality ==
    (fn = "_normalize_size_token" /\ ret.stage = "returned") =>
       /\ \A i \in GroupsOf(arg.table, arg.tok) : ret.val = arg.table[i].canon
       /\ GroupsOf(arg.table, arg.tok) = {} => ret.val = arg.tok
       /\ ExampleToken

\* C20, amended: the lower-cased token is compared, on full equality, with
\* the labels and variants as configured; it gives the label of the first
\* group in configuration order that it equals, and is itself returned
\* (lower-cased) when it equals none, one that merely contains a variant
\* included.
C20_FullEqualityOfLowerCased ==
    (fn = "_normalize_size_token" /\ ret.stage = "returned") =>
       LET t == MapSeq(arg.tok, LowerChar)
           found == GroupsOf(arg.table, t)
       IN  /\ found # {} =>
                \E i \in found : /\ \A j \in found : i <= j
                                 /\ ret.val = arg.table[i].canon
           /\ found = {} => ret.val = t
           /\ ExampleToken

\* a token that contains a configured variant without being equal to it
\* has been returned as it is
C20_Witness ==
    /\ fn = "_normalize_size_token"
    /\ ret.stage = "returned"
    /\ \E i \in 1..Len(arg.table) :
          /\ arg.table[i].variants[1] # arg.tok
          /\ Contains(arg.tok, arg.table[i].variants[1])
    /\ GroupsOf(arg.table, arg.tok) = {}
    /\ ret.val = arg.tok

\* C21: best matches are consumed first.  Among the records of one order
\* line the confidence never rises along the output, and whenever the inner
\* loop stands at an entry of the sorted list, every catalog line the scorer
\* accepts for that order line with a higher confidence has no stock left.
C21_BestFirst ==
    /\ \A i, j \in 1..Len(matched_results) :
          (i < j /\ matched_results[i].receipt_idx = matched_results[j].receipt_idx)
             => matched_results[i].confidence_score
                   >= matched_results[j].confidence_score
    /\ pc = "alloc" =>
          \A m \in DOMAIN m_df :
             LET sc == calculate_match_confidence_perfect(r_df[LineAt(r_pos)],
                                                          m_df[m])
             IN  (sc.ok /\ sc.conf > results[k].conf) => matched_qty[m] = 0

\* an order line has been given units of two catalog lines, the second at a
\* lower confidence than the first
C21_Witness ==
    \E i, j \in 1..Len(matched_results) :
       /\ i < j
       /\ matched_results[i].receipt_idx = matched_results[j].receipt_idx
       /\ matched_results[i].matched_idx # matched_results[j].matched_idx
       /\ matched_results[i].confidence_score
             > matched_results[j].confidence_score

\* is catalog line m in the list a mapping holds under a key
Listed(mapping, key, m) ==
    key \in DOMAIN mapping /\ m \in Range(mapping[key])

\* C22: at every point of a run of the blocked matcher every catalog line,
\* whatever its remaining quantity, is in the (brand) mapping, in the (brand,
\* colour) mapping and in the (brand, colour, size token) mapping under each
\* of its size tokens; a retrieval leaves out of the looked-up list exactly
\* the lines without remaining quantity.
C22_IndexInvariant ==
    (RunKinds[run] = "blocked" /\ pc \in {"line", "alloc"}) =>
       /\ \A m \in DOMAIN m_df :
             /\ Listed(index.b, <<BrandOf(m_df[m])>>, m)
             /\ Listed(index.bc, <<BrandOf(m_df[m]), ColorOf(m_df[m])>>, m)
             /\ \A s \in SizesOf(m_df[m]) :
                   Listed(index.bcs,
                          <<BrandOf(m_df[m]), ColorOf(m_df[m]), s>>, m)
       /\ cand.valid =>
             Range(cand.ids) = {m \in Range(cand.raw) : cand.stock[m] > 0}

\* a catalog line with two size tokens has been fully consumed, is still in
\* the index, and the last retrieval looked it up and filtered it out
C22_Witness ==
    /\ RunKinds[run] = "blocked"
    /\ pc = "line"
    /\ cand.valid
    /\ \E m \in DOMAIN m_df :
          /\ matched_qty[m] = 0
          /\ Cardinality(SizesOf(m_df[m])) = 2
          /\ \A s \in SizesOf(m_df[m]) :
                Listed(index.bcs, <<BrandOf(m_df[m]), ColorOf(m_df[m]), s>>, m)
          /\ m \in Range(cand.raw)
          /\ m \notin Range(cand.ids)

\* C23: greedy maximality.  When a run of the blocked matcher has passed its
\* last order line, no order line with remaining quantity and catalog line
\* with remaining quantity pass the four gates together.
C23_GreedyMaximality ==
    (RunKinds[run] = "blocked" /\ pc = "line" /\ r_pos = NumReceipt) =>
       \A r \in DOMAIN r_df, m \in DOMAIN m_df :
          (receipt_qty[r] > 0 /\ matched_qty[m] > 0) => ~PairPasses(r, m)

\* a blocked run ends with an order line that keeps a residual after it has
\* emptied the catalog line that passes the gates with it, while the other
\* catalog line, which does not pass them, has stock
C23_Witness ==
    /\ RunKinds[run] = "blocked"
    /\ pc = "line"
    /\ r_pos = NumReceipt
    /\ \E r \in DOMAIN r_df, m, other \in DOMAIN m_df :
          /\ receipt_qty[r] > 0
          /\ PairPasses(r, m)
          /\ matched_qty[m] = 0
          /\ <<r, m>> \in PairsOf(matched_results)
          /\ ~PairPasses(r, other)
          /\ matched_qty[other] > 0

\* the three cheap gates on an order line and a catalog line, read off the
\* rows
SameBrand(r, m) == BrandOf(r_df[r]) = BrandOf(m_df[m])
SameColor(r, m) == ColorOf(r_df[r]) = ColorOf(m_df[m])
CommonSize(r, m) == SizesOf(r_df[r]) \cap SizesOf(m_df[m]) # {}

\* C24: every record of a blocked run pairs an order line with a catalog line
\* of its tier 1 (same brand, same colour, a common size token, listed in the
\* index under such a token); an order line whose candidates came from tier 2
\* or tier 3 gets no record, each of these candidates failing the size, the
\* brand or the colour gate.
C24_TierOneOnly ==
    (RunKinds[run] = "blocked" /\ pc \in {"line", "alloc"}) =>
       /\ \A p \in PairsOf(matched_results) :
             /\ SameBrand(p[1], p[2])
             /\ SameColor(p[1], p[2])
             /\ CommonSize(p[1], p[2])
             /\ \E s \in SizesOf(r_df[p[1]]) :
                   Listed(index.bcs,
                          <<BrandOf(r_df[p[1]]), ColorOf(r_df[p[1]]), s>>, p[2])
       /\ (cand.valid /\ cand.tier \in {2, 3}) =>
             /\ results = <<>>
             /\ \A p \in PairsOf(matched_results) : p[1] # cand.r
             /\ \A m \in Range(cand.raw) :
                   ~(SameBrand(cand.r, m) /\ SameColor(cand.r, m)
                       /\ CommonSize(cand.r, m))

\* an order line with quantity has taken its candidates from tier 2, one of
\* them had stock and an equal name, and the line was left without a record
C24_Witness ==
    /\ RunKinds[run] = "blocked"
    /\ pc = "line"
    /\ cand.valid
    /\ cand.tier = 2
    /\ receipt_qty[cand.r] > 0
    /\ \E m \in Range(cand.ids) :
          /\ NameOf(r_df[cand.r]) = NameOf(m_df[m])
          /\ matched_qty[m] > 0

\* how many times a label occurs in a list
Occurrences(ids, m) == Cardinality({i \in 1..Len(ids) : ids[i] = m})

\* C25: in a blocked run a catalog line of the brand and colour of an order
\* line occurs in its tier-1 list once for every size token the two share; a
\* step that emits records for a pair is the only such step for the pair, it
\* leaves the order line or the catalog line without remaining quantity, and
\* no counter goes below 0.
C25_RepeatedCandidates ==
    [][RunKinds[run] = "blocked" =>
         /\ (cand'.valid /\ cand'.tier = 1) =>
               \A m \in DOMAIN m_df :
                  Occurrences(cand'.raw, m)
                     = IF SameBrand(cand'.r, m) /\ SameColor(cand'.r, m)
                       THEN Cardinality(SizesOf(r_df[cand'.r])
                                           \cap SizesOf(m_df[m]))
                       ELSE 0
         /\ (pc = "alloc" /\ matched_results' # matched_results) =>
               /\ <<LineAt(r_pos), results[k].m_idx>>
                     \notin PairsOf(matched_results)
               /\ \/ receipt_qty'[LineAt(r_pos)] = 0
                  \/ matched_qty'[results[k].m_idx] = 0
         /\ pc = "alloc" =>
               /\ \A r \in DOMAIN receipt_qty' : receipt_qty'[r] >= 0
               /\ \A m \in DOMAIN matched_qty' : matched_qty'[m] >= 0
      ]_vars

\* the inner loop stands at the second entry of a catalog line that shares
\* two size tokens with the order line and has been allocated at its first
\* entry, the order line still having quantity
C25_Witness ==
    /\ RunKinds[run] = "blocked"
    /\ pc = "alloc"
    /\ k > 1
    /\ remain > 0
    /\ \E j \in 1..(k - 1) : results[j].m_idx = results[k].m_idx
    /\ Occurrences(cand.raw, results[k].m_idx) = 2
    /\ <<LineAt(r_pos), results[k].m_idx>> \in PairsOf(matched_results)

\* the (order line, catalog line, confidence) of the records of a result
Triples(out) ==
    [i \in 1..Len(out) |->
        <<out[i].receipt_idx, out[i].matched_idx, out[i].confidence_score>>]

\* C26: on the same datasets and settings a run of the blocked matcher and a
\* run of the sequential matcher return the same sequence of (order line,
\* catalog line, confidence) records.
C26_Interchangeable ==
    \A i, j \in DOMAIN finished :
       (/\ finished[i].kind = "blocked"
        /\ finished[j].kind = "sequential"
        /\ finished[i].status = "ok"
        /\ finished[j].status = "ok")
          => Triples(finished[i].results) = Triples(finished[j].results)

\* the same, on datasets in which no name holds a variant of a synonym group
C26_InterchangeableOnCanonicalNames ==
    (\A r \in DOMAIN receipt_df.rows :
        apply_bidir_synonyms_text(normalize_text_ultra(receipt_df.rows[r].name))
           = normalize_text_ultra(receipt_df.rows[r].name))
       => C26_Interchangeable

\* the same, on datasets in which no line has more than one size token
C26_InterchangeableOnSingleSizes ==
    (\A r \in DOMAIN receipt_df.rows :
        Cardinality(extract_size_parts_ultra(receipt_df.rows[r].size)) <= 1)
       => C26_Interchangeable

\* the settings and the tables a matcher built now works with are those the
\* module config holds
UsesConfig ==
    /\ Self = Matcher(config.MATCHING)
    /\ NAME_SYNONYM_GROUPS = config.NAME_SYNONYM_GROUPS
    /\ SIZE_SYNONYMS = config.SIZE_SYNONYMS
    /\ COLOR_ALIASES = config.COLOR_ALIASES

\* update_config has answered with success True
UpdateSucceeded ==
    fn = "update_config" /\ ret.stage = "returned" /\ ret.val.success

\* C27: configuration update takes effect.  Once update_config has reported
\* success, every matching run that starts afterwards in the same process
\* works with the updated name-synonym groups, size synonyms, color aliases,
\* weights and name-score cutoff, not with the values match.py read when it
\* was imported.
C27_UpdateTakesEffect ==
    [][(UpdateSucceeded /\ pc = "start" /\ pc' # "start") => UsesConfig']_vars

\* the part of C27 on the weights and the cutoff alone, whatever the tables
\* of config.py hold
C27_SettingsTakeEffect ==
    [][(UpdateSucceeded /\ pc = "start" /\ pc' # "start")
          => Self' = Matcher(config'.MATCHING)]_vars

====
